---- MODULE Spec2Model ----
(***************************************************************************)
(* A model of pushy's BaseConnection (pushy/protocol/baseconnection.py):   *)
(* the reentrant request/response coordinator, the response-handler        *)
(* registry, the single-reader discipline of the input stream, close(),    *)
(* and the pending-proxy part of __unmarshal.                              *)
(*                                                                         *)
(* Every thread is a stack of frames (serve_forever, send_request,         *)
(* __handle, close); a frame's pc names the statement it is at, after the  *)
(* source line.  A step is one access to state that other threads reach    *)
(* without the same lock; statements under the scheduling mutex that touch *)
(* only state guarded by it are taken together.  `x += 1` on a counter     *)
(* that another thread updates outside the mutex is a load and a store.    *)
(***************************************************************************)
EXTENDS Integers, Sequences, FiniteSets, TLC

\* ------------------------------------------------------------------ bounds
\* top-level send_request calls a client thread makes
MaxCalls == 1
\* plain requests the peer's client threads send to us (abstract peer)
MaxEnvReq == 1
\* syncrequests (call-backs) the abstract peer's handlers send to us
MaxEnvCb == 1
\* send_request frames one thread may have on its stack (nesting depth)
MaxDepth == 2
\* ResponseHandler objects one connection creates
MaxHandlers == 3
\* close() calls a closing thread makes
MaxCloses == 2
\* frames the peer emits that refer to its object K by identity only
MaxRefs == 1

\* --------------------------------------------------------------- universe
Peers == {"a", "b"}
ThreadsA == {"a_srv", "a_c1", "a_c2", "a_k1", "a_k2"}
ThreadsB == {"b_srv", "b_c1"}
Threads == ThreadsA \cup ThreadsB
NoThread == "none"
PeerOf(t) == IF t \in ThreadsA THEN "a" ELSE "b"
Other(p) == IF p = "a" THEN "b" ELSE "a"
HandlerIds == 1 .. (MaxHandlers + 1)

\* MessageType: the closed set of frame types the core tells apart
response_types == {"response", "exception"}
request_types == {"request", "syncrequest"}
NoMsg == [type |-> "none", tag |-> 0, pl |-> "s"]
Msg(ty, tag, pl) == [type |-> ty, tag |-> tag, pl |-> pl]
\* tags of the frames the abstract peer originates
EnvReqTag(n) == 100 + n
EnvCbTag(n) == 200 + n

VARIABLES
  open,               \* self.__open
  receiving,          \* self.__receiving
  processing,         \* self.__processing
  waiting,            \* self.__waiting
  responses,          \* self.__responses
  requests,           \* self.__requests
  response_handlers,  \* self.__response_handlers (handler ids, head first)
  handlers,           \* the ResponseHandler objects: event, message, syncrequest, thread
  request_lock,       \* self.__request_lock (RLock): owner and count
  cond_lock,          \* the lock of self.__processing_condition: its holder
  cond_waiters,       \* threads in self.__processing_condition.wait()
  istream_lock,       \* self.__istream_lock: its holder
  istream_closed,     \* calls of self.__istream.close()
  ostream_closed,     \* calls of self.__ostream.close()
  chan,               \* chan[p]: the frames written toward p and not yet read by p
  ioerr,              \* the transport toward p has failed: a read raises IOError
  request_count,      \* self.__thread_local.request_count, per thread
  stack,              \* per thread: the frames of the calls it is in
  ncalls,             \* handlers created so far on the connection
  got,                \* got[p][h]: tag of the response/exception send_request of h was given
  kersplat,           \* the "we're not first" diagnostic has been written
  env,                \* the abstract peer: what it has sent and is waiting for
  cfg,                \* what the threads of this run do (fixed by Init)
  proxies,            \* self.__proxies: the proxy registered for the peer's object K (0: none)
  pending_proxies,    \* self.__pending_proxies: the Event waiting for K (0: no entry)
  events,             \* the threading.Event objects __unmarshal created: their flags
  constructed,        \* Proxy objects constructed for K so far
  resolved,           \* the proxies __unmarshal returned for an identity-only payload
  proxy_ids           \* self.__proxy_ids: the proxies that have an entry (each maps to K)

\* lines 135-142: the proxy tables of a connection
proxy_vars == <<proxies, pending_proxies, events, constructed, resolved, proxy_ids>>

VARIABLES
  proxied_objects,    \* self.__proxied_objects: the local object O has an entry
  introduced          \* payloads __marshal has built that introduce O (tuple form)

\* line 142 and lines 449-473: what __marshal keeps of the local object O
marshal_vars == <<proxied_objects, introduced>>

vars == <<open, receiving, processing, waiting, responses, requests,
          response_handlers, handlers, request_lock, cond_lock, cond_waiters,
          istream_lock, istream_closed, ostream_closed, chan, ioerr,
          request_count, stack, ncalls, got, kersplat, env, cfg, proxy_vars, marshal_vars>>

\* ------------------------------------------------------------------ frames
\* fn: the function the frame runs; pc: where it is; h: the handler of a
\* send_request (or the one a reader fetched); m: its message; x: a loaded
\* counter value; out: the exception it is unwinding with, or "ok"; pl: the
\* payload __marshal has built for the frame it is about to write
Frame(fname, pcname) ==
  [fn |-> fname, pc |-> pcname, h |-> 0, m |-> NoMsg, x |-> 0, out |-> "ok", pl |-> "s"]
Top(t) == stack[t][Len(stack[t])]
Pc(t) == Top(t).pc
SetTop(stk, f) == [stk EXCEPT ![Len(stk)] = f]
Pop(stk) == SubSeq(stk, 1, Len(stk) - 1)
\* the thread's top frame moves to pcname
Goto(t, pcname) == [stack EXCEPT ![t] = SetTop(@, [Top(t) EXCEPT !.pc = pcname])]
\* the thread's top frame becomes f
Become(t, f) == [stack EXCEPT ![t] = SetTop(@, f)]
NSends(stk) == Cardinality({i \in 1 .. Len(stk) : stk[i].fn = "send"})

\* threading.Condition.notify(): one waiter, if any, leaves the wait set
Notified(ws) == IF ws = {} THEN {ws} ELSE {ws \ {w} : w \in ws}

NewHandler(t, sync) == [event |-> FALSE, message |-> NoMsg, syncrequest |-> sync, thread |-> t]
NoHandler == [event |-> FALSE, message |-> NoMsg, syncrequest |-> FALSE, thread |-> NoThread]

\* An exception `o` leaves the top frame of stk: the frame is popped and the
\* exception reaches the frames below.  send_request (lines 268-272) has no
\* handler; __handle catches what its message handler raises (lines 590-593);
\* serve_forever catches IOError only (line 206).
RECURSIVE Raise(_, _)
Raise(stk, o) ==
  LET rest == Pop(stk)
      c == rest[Len(rest)]
  IN IF c.pc \in {"sr_hsync", "sr_hfin"} THEN Raise(rest, o)
     ELSE IF c.pc = "h_call"
       THEN SetTop(rest, [c EXCEPT !.pc = IF o = "exit" THEN "h_exit" ELSE "h_exc", !.out = o])
     ELSE IF c.pc = "sf_handle"
       THEN SetTop(rest, [c EXCEPT !.pc = IF o = "ioerror" THEN "sf_done" ELSE "dead", !.out = o])
     ELSE SetTop(rest, [c EXCEPT !.pc = IF c.fn = "closer" THEN "k_done" ELSE "c_done",
                                 !.out = o, !.m = NoMsg])

\* The top frame of stk returns v to its caller.
RECURSIVE Return(_, _)
Return(stk, v) ==
  LET rest == Pop(stk)
      c == rest[Len(rest)]
  IN IF c.pc = "sr_hsync" THEN SetTop(rest, [c EXCEPT !.pc = "wr_enter", !.m = NoMsg])
     ELSE IF c.pc = "sr_hfin" THEN Return(rest, v)
     ELSE IF c.pc = "h_call" THEN rest
     ELSE IF c.pc = "sf_handle" THEN SetTop(rest, [c EXCEPT !.pc = "sf_loop", !.m = NoMsg])
     ELSE SetTop(rest, [c EXCEPT !.pc = IF c.fn = "closer" THEN "k_done" ELSE "c_done",
                                 !.out = "ok", !.m = v])

\* __handle(m) is called from the frame on top, which waits at callerpc.
PushHandle(stk, callerpc, m) ==
  Append(SetTop(stk, [stk[Len(stk)] EXCEPT !.pc = callerpc]),
         [Frame("handle", "h_start") EXCEPT !.m = m])

IsRequest(m) == m.type \notin response_types


Upd(f, p, v) == [f EXCEPT ![p] = v]
SetEvent(p, h) == [handlers EXCEPT ![p][h].event = TRUE]
Head0(p) == response_handlers[p][1]

\* the frame an operation writes onto its output stream reaches the peer's input
Written(p, m) == [chan EXCEPT ![Other(p)] = Append(@, m)]

\* ============================================================ serve_forever
\* line 201: while self.__open
SfLoop(t) ==
  /\ Pc(t) = "sf_loop"
  /\ stack' = Goto(t, IF open[PeerOf(t)] THEN "wq_enter" ELSE "sf_done")
  /\ UNCHANGED <<open, receiving, processing, waiting, responses, requests,
                 response_handlers, handlers, request_lock, cond_lock, cond_waiters,
                 istream_lock, istream_closed, ostream_closed, chan, ioerr,
                 request_count, ncalls, got, kersplat, env, cfg, proxy_vars, marshal_vars>>

\* lines 204-205: if m is not None and self.__open: self.__handle(m)
SfCheck(t) ==
  /\ Pc(t) = "sf_check"
  /\ stack' = IF Top(t).m # NoMsg /\ open[PeerOf(t)]
                THEN [stack EXCEPT ![t] = PushHandle(@, "sf_handle", Top(t).m)]
                ELSE Become(t, [Top(t) EXCEPT !.pc = "sf_loop", !.m = NoMsg])
  /\ UNCHANGED <<open, receiving, processing, waiting, responses, requests,
                 response_handlers, handlers, request_lock, cond_lock, cond_waiters,
                 istream_lock, istream_closed, ostream_closed, chan, ioerr,
                 request_count, ncalls, got, kersplat, env, cfg, proxy_vars, marshal_vars>>

\* ========================================================== __waitForRequest
\* the wait condition of lines 301-305 without its `self.__receiving` term
WqBlockedIgnoringReceiving(p) ==
  (open[p] /\ requests[p] = <<>>) /\
  (responses[p] > 0 \/ (processing[p] > 0 /\ processing[p] > waiting[p]))

\* lines 301-305: the request reader must wait
WqBlocked(p) ==
  (open[p] /\ requests[p] = <<>>) /\
  (receiving[p] \/ responses[p] > 0 \/
   (processing[p] > 0 /\ processing[p] > waiting[p]))

\* lines 297-323, under the scheduling mutex: wait on the condition, give up
\* (closed), take a queued request (the load of `processing += 1`), or become
\* the reader.
WqTest(t) ==
  LET p == PeerOf(t)
      f == Top(t)
  IN /\ f.pc = "wq_enter" \/ (f.pc = "wq_wait" /\ t \notin cond_waiters[p])
     /\ cond_lock[p] = NoThread
     /\ IF WqBlocked(p)
          THEN /\ cond_waiters' = Upd(cond_waiters, p, cond_waiters[p] \cup {t})
               /\ stack' = Goto(t, "wq_wait")
               /\ UNCHANGED <<receiving, cond_lock>>
        ELSE IF ~open[p]
          THEN /\ stack' = Become(t, [f EXCEPT !.pc = "sf_check", !.m = NoMsg])
               /\ UNCHANGED <<receiving, cond_lock, cond_waiters>>
        ELSE IF requests[p] # <<>>
          THEN /\ cond_lock' = Upd(cond_lock, p, t)
               /\ stack' = Become(t, [f EXCEPT !.pc = "wq_deq", !.x = processing[p]])
               /\ UNCHANGED <<receiving, cond_waiters>>
        ELSE /\ receiving' = Upd(receiving, p, TRUE)
             /\ stack' = Goto(t, "wq_recv0")
             /\ UNCHANGED <<cond_lock, cond_waiters>>
     /\ UNCHANGED <<open, processing, waiting, responses, requests,
                    response_handlers, handlers, request_lock,
                    istream_lock, istream_closed, ostream_closed, chan, ioerr,
                    request_count, ncalls, got, kersplat, env, cfg, proxy_vars, marshal_vars>>

\* lines 314-319: the store of `processing += 1`, the request leaves the
\* queue, the head handler is nudged, the mutex is released (line 350)
WqDeq(t) ==
  LET p == PeerOf(t)
      f == Top(t)
  IN /\ f.pc = "wq_deq"
     /\ processing' = Upd(processing, p, f.x + 1)
     /\ requests' = Upd(requests, p, Tail(requests[p]))
     /\ handlers' = IF response_handlers[p] # <<>> THEN SetEvent(p, Head0(p)) ELSE handlers
     /\ cond_lock' = Upd(cond_lock, p, NoThread)
     /\ stack' = Become(t, [f EXCEPT !.pc = "sf_check", !.m = Head(requests[p]), !.x = 0])
     /\ UNCHANGED <<open, receiving, waiting, responses,
                    response_handlers, request_lock, cond_waiters,
                    istream_lock, istream_closed, ostream_closed, chan, ioerr,
                    request_count, ncalls, got, kersplat, env, cfg, proxy_vars, marshal_vars>>

\* ================================================================== __recv
\* line 560: self.__istream_lock.acquire()
RecvLock(t) ==
  LET p == PeerOf(t)
  IN /\ Pc(t) \in {"wq_recv0", "wr_recv0"}
     /\ istream_lock[p] = NoThread
     /\ istream_lock' = Upd(istream_lock, p, t)
     /\ stack' = Goto(t, IF Pc(t) = "wq_recv0" THEN "wq_recv" ELSE "wr_recv")
     /\ UNCHANGED <<open, receiving, processing, waiting, responses, requests,
                    response_handlers, handlers, request_lock, cond_lock, cond_waiters,
                    istream_closed, ostream_closed, chan, ioerr,
                    request_count, ncalls, got, kersplat, env, cfg, proxy_vars, marshal_vars>>

\* line 562, Message.unpack(self.__istream): what a read gives now.  A closed
\* file raises ValueError, a failed transport IOError; with nothing to read
\* the thread stays blocked.
CanRead(p) == istream_closed[p] > 0 \/ chan[p] # <<>> \/ ioerr[p]
ReadOutcome(p) ==
  IF istream_closed[p] > 0 THEN "value"
  ELSE IF chan[p] # <<>> THEN "ok"
  ELSE "ioerror"

\* lines 325-342 of __waitForRequest: the frame is read and classified, and
\* the counter its branch increments is loaded.
WqRecv(t) ==
  LET p == PeerOf(t)
      f == Top(t)
      o == ReadOutcome(p)
      m == Head(chan[p])
  IN /\ f.pc = "wq_recv"
     /\ CanRead(p)
     /\ istream_lock' = Upd(istream_lock, p, NoThread)
     /\ chan' = IF o = "ok" THEN Upd(chan, p, Tail(chan[p])) ELSE chan
     /\ stack' =
          IF o # "ok" THEN Become(t, [f EXCEPT !.pc = "wq_fin", !.out = o, !.m = NoMsg])
          ELSE IF m.type \in response_types
            THEN Become(t, [f EXCEPT !.pc = "wq_resp", !.m = m, !.x = responses[p]])
          ELSE IF m.type = "syncrequest"
            THEN Become(t, [f EXCEPT !.pc = "wq_sync", !.m = m, !.x = processing[p]])
          ELSE IF open[p]
            THEN Become(t, [f EXCEPT !.pc = "wq_rq", !.m = m, !.x = processing[p]])
          ELSE Become(t, [f EXCEPT !.pc = "wq_nudge", !.m = m])
     /\ UNCHANGED <<open, receiving, processing, waiting, responses, requests,
                    response_handlers, handlers, request_lock, cond_lock, cond_waiters,
                    istream_closed, ostream_closed, ioerr,
                    request_count, ncalls, got, kersplat, env, cfg, proxy_vars, marshal_vars>>

\* lines 330, 335, 342: the store of `self.__responses += 1` or of
\* `self.__processing += 1`, outside the scheduling mutex
WqStore(t) ==
  LET p == PeerOf(t)
      f == Top(t)
  IN /\ f.pc \in {"wq_resp", "wq_sync", "wq_rq"}
     /\ responses' = IF f.pc = "wq_resp" THEN Upd(responses, p, f.x + 1) ELSE responses
     /\ processing' = IF f.pc = "wq_resp" THEN processing ELSE Upd(processing, p, f.x + 1)
     /\ stack' = Become(t, [f EXCEPT !.pc = IF f.pc = "wq_rq" THEN "wq_nudge" ELSE "wq_set0",
                                     !.x = 0])
     /\ UNCHANGED <<open, receiving, waiting, requests,
                    response_handlers, handlers, request_lock, cond_lock, cond_waiters,
                    istream_lock, istream_closed, ostream_closed, chan, ioerr,
                    request_count, ncalls, got, kersplat, env, cfg, proxy_vars, marshal_vars>>

\* lines 331, 336, self.__response_handlers[0].set(m): the head handler is
\* fetched (IndexError when there is none) and its message written (line 87)
WqSet0(t) ==
  LET p == PeerOf(t)
      f == Top(t)
  IN /\ f.pc = "wq_set0"
     /\ IF response_handlers[p] = <<>>
          THEN /\ stack' = Become(t, [f EXCEPT !.pc = "wq_fin", !.out = "index", !.m = NoMsg])
               /\ UNCHANGED handlers
          ELSE /\ handlers' = [handlers EXCEPT ![p][Head0(p)].message = f.m]
               /\ stack' = Become(t, [f EXCEPT !.pc = "wq_set1", !.h = Head0(p)])
     /\ UNCHANGED <<open, receiving, processing, waiting, responses, requests,
                    response_handlers, request_lock, cond_lock, cond_waiters,
                    istream_lock, istream_closed, ostream_closed, chan, ioerr,
                    request_count, ncalls, got, kersplat, env, cfg, proxy_vars, marshal_vars>>

\* line 89 of ResponseHandler.set: self.event.set(); __waitForRequest then
\* falls out of its try and returns None
WqSet1(t) ==
  LET p == PeerOf(t)
      f == Top(t)
  IN /\ f.pc = "wq_set1"
     /\ handlers' = SetEvent(p, f.h)
     /\ stack' = Become(t, [f EXCEPT !.pc = "wq_fin", !.h = 0, !.m = NoMsg])
     /\ UNCHANGED <<open, receiving, processing, waiting, responses, requests,
                    response_handlers, request_lock, cond_lock, cond_waiters,
                    istream_lock, istream_closed, ostream_closed, chan, ioerr,
                    request_count, ncalls, got, kersplat, env, cfg, proxy_vars, marshal_vars>>

\* lines 343-345: wake the head handler, if any, and return the request
WqNudge(t) ==
  LET p == PeerOf(t)
  IN /\ Pc(t) = "wq_nudge"
     /\ handlers' = IF response_handlers[p] # <<>> THEN SetEvent(p, Head0(p)) ELSE handlers
     /\ stack' = Goto(t, "wq_fin")
     /\ UNCHANGED <<open, receiving, processing, waiting, responses, requests,
                    response_handlers, request_lock, cond_lock, cond_waiters,
                    istream_lock, istream_closed, ostream_closed, chan, ioerr,
                    request_count, ncalls, got, kersplat, env, cfg, proxy_vars, marshal_vars>>

\* lines 346-350: the mutex is re-acquired, receiving cleared, the mutex
\* released; None, the request or the exception reaches serve_forever
\* (lines 203-207)
WqFin(t) ==
  LET p == PeerOf(t)
      f == Top(t)
  IN /\ f.pc = "wq_fin"
     /\ cond_lock[p] = NoThread
     /\ receiving' = Upd(receiving, p, FALSE)
     /\ stack' = Goto(t, IF f.out = "ok" THEN "sf_check"
                         ELSE IF f.out = "ioerror" THEN "sf_done" ELSE "dead")
     /\ UNCHANGED <<open, processing, waiting, responses, requests,
                    response_handlers, handlers, request_lock, cond_lock, cond_waiters,
                    istream_lock, istream_closed, ostream_closed, chan, ioerr,
                    request_count, ncalls, got, kersplat, env, cfg, proxy_vars, marshal_vars>>


\* ================================================================ __handle
\* lines 576-586 and 617-622: request_count rises for a request; the payload
\* is unmarshalled; a response is returned to the caller as it is, an
\* exception message is raised again (lines 596-597), a request goes to its
\* message handler.
\* lines 586-589 and 617-631 once the payload is unmarshalled: a response is
\* returned to the caller, an exception message is raised again, a request
\* goes to its message handler
Dispatch(t, f) ==
  IF f.m.type = "response" THEN Upd(stack, t, Return(stack[t], f.m))
  ELSE IF f.m.type = "exception" THEN Upd(stack, t, Raise(stack[t], "remote"))
  ELSE Become(t, [f EXCEPT !.pc = "h_call", !.x = 0])

HStart(t) ==
  LET p == PeerOf(t)
      f == Top(t)
  IN /\ f.pc = "h_start"
     /\ request_count' = IF IsRequest(f.m) THEN Upd(request_count, t, request_count[t] + 1)
                         ELSE request_count
     /\ stack' = IF f.m.pl = "intro" THEN Goto(t, "u_new")
                 ELSE IF f.m.pl = "ref" THEN Goto(t, "u_known")
                 ELSE IF f.m.pl = "bad" THEN Become(t, [f EXCEPT !.pc = "h_exc", !.out = "value"])
                 ELSE Dispatch(t, f)
     /\ UNCHANGED <<open, receiving, processing, waiting, responses, requests,
                    response_handlers, handlers, request_lock, cond_lock, cond_waiters,
                    istream_lock, istream_closed, ostream_closed, chan, ioerr,
                    ncalls, got, kersplat, env, cfg, proxy_vars, marshal_vars>>

\* ============================================================= __unmarshal
\* A payload is "s" (a simple value, lines 477-479), "intro" (tag p with the
\* tuple that introduces the peer's object K, lines 492-511), "ref" (tag p
\* with the identity of K alone, lines 512-529) or "bad" (no known prefix:
\* line 535 raises ValueError, which the `except Exception` of line 593 of
\* __handle catches).  The sections under
\* self.__unmarshal_lock (lines 502-509 and 515-523) hold a plain lock and
\* never block, so each is one step; the reads and the write of
\* self.__proxies outside the lock are steps of their own.

\* lines 538-542: __register_proxy, the callback the Proxy constructor is
\* given (line 498-499); line 541: self.__proxies[remote_id] = proxy
RegisterProxy(p, id) == [proxies EXCEPT ![p] = id]

\* line 542: self.__proxy_ids[id(proxy)] = remote_id
RegisterProxyId(p, id) == [proxy_ids EXCEPT ![p] = @ \cup {id}]

\* lines 493-499: the proxy of a new object is constructed and registered
UmNew(t) ==
  LET p == PeerOf(t)
  IN /\ Pc(t) = "u_new"
     /\ constructed' = Upd(constructed, p, constructed[p] + 1)
     /\ proxies' = RegisterProxy(p, constructed[p] + 1)
     /\ stack' = Become(t, [Top(t) EXCEPT !.pc = "u_reg", !.x = constructed[p] + 1])
     /\ UNCHANGED <<open, receiving, processing, waiting, responses, requests,
                    response_handlers, handlers, request_lock, cond_lock, cond_waiters,
                    istream_lock, istream_closed, ostream_closed, chan, ioerr,
                    request_count, ncalls, got, kersplat, env, cfg,
                    pending_proxies, events, resolved, proxy_ids, marshal_vars>>

\* line 542, the second statement of __register_proxy: the proxy just
\* constructed (the one self.__proxies held when this thread stored it, kept
\* in the frame) gets its entry in self.__proxy_ids
UmReg(t) ==
  LET p == PeerOf(t)
      f == Top(t)
  IN /\ f.pc = "u_reg"
     /\ proxy_ids' = RegisterProxyId(p, f.x)
     /\ stack' = Become(t, [f EXCEPT !.pc = "u_wake", !.x = 0])
     /\ UNCHANGED <<open, receiving, processing, waiting, responses, requests,
                    response_handlers, handlers, request_lock, cond_lock, cond_waiters,
                    istream_lock, istream_closed, ostream_closed, chan, ioerr,
                    request_count, ncalls, got, kersplat, env, cfg,
                    proxies, pending_proxies, events, constructed, resolved, marshal_vars>>

\* lines 501-511: whoever waits for this identity is woken: the entry is
\* deleted and its event set; the proxy is returned
UmWake(t) ==
  LET p == PeerOf(t)
      f == Top(t)
      e == pending_proxies[p]
  IN /\ f.pc = "u_wake"
     /\ pending_proxies' = Upd(pending_proxies, p, 0)
     /\ events' = IF e # 0 THEN [events EXCEPT ![p][e] = TRUE] ELSE events
     /\ stack' = Dispatch(t, f)
     /\ UNCHANGED <<open, receiving, processing, waiting, responses, requests,
                    response_handlers, handlers, request_lock, cond_lock, cond_waiters,
                    istream_lock, istream_closed, ostream_closed, chan, ioerr,
                    request_count, ncalls, got, kersplat, env, cfg,
                    proxies, constructed, resolved, proxy_ids, marshal_vars>>

\* line 514 (pc u_known) and line 526 (pc u_chk): `if id_ not in self.__proxies`
UmKnown(t) ==
  LET p == PeerOf(t)
      f == Top(t)
  IN /\ f.pc \in {"u_known", "u_chk"}
     /\ stack' = IF proxies[p] # 0 THEN Goto(t, "u_ret")
                 ELSE IF f.pc = "u_known" THEN Goto(t, "u_pend")
                 ELSE Goto(t, "u_wait")
     /\ UNCHANGED <<open, receiving, processing, waiting, responses, requests,
                    response_handlers, handlers, request_lock, cond_lock, cond_waiters,
                    istream_lock, istream_closed, ostream_closed, chan, ioerr,
                    request_count, ncalls, got, kersplat, env, cfg, proxy_vars, marshal_vars>>

\* lines 515-523: under the unmarshal lock, if the proxy is still unknown
\* the event of the identity is looked up, or created and entered; the
\* frame's x is the local `event` (0: not bound)
UmPend(t) ==
  LET p == PeerOf(t)
      f == Top(t)
      e == pending_proxies[p]
      fresh == proxies[p] = 0 /\ e = 0
  IN /\ f.pc = "u_pend"
     /\ events' = IF fresh THEN Upd(events, p, Append(events[p], FALSE)) ELSE events
     /\ pending_proxies' = IF fresh THEN Upd(pending_proxies, p, Len(events[p]) + 1)
                           ELSE pending_proxies
     /\ stack' = Become(t, [f EXCEPT !.pc = "u_chk",
                                     !.x = IF proxies[p] # 0 THEN 0
                                           ELSE IF e = 0 THEN Len(events[p]) + 1 ELSE e])
     /\ UNCHANGED <<open, receiving, processing, waiting, responses, requests,
                    response_handlers, handlers, request_lock, cond_lock, cond_waiters,
                    istream_lock, istream_closed, ostream_closed, chan, ioerr,
                    request_count, ncalls, got, kersplat, env, cfg,
                    proxies, constructed, resolved, proxy_ids, marshal_vars>>

\* line 527: event.wait()
UmWait(t) ==
  LET p == PeerOf(t)
      f == Top(t)
  IN /\ f.pc = "u_wait"
     /\ events[p][f.x]
     /\ stack' = Goto(t, "u_ret")
     /\ UNCHANGED <<open, receiving, processing, waiting, responses, requests,
                    response_handlers, handlers, request_lock, cond_lock, cond_waiters,
                    istream_lock, istream_closed, ostream_closed, chan, ioerr,
                    request_count, ncalls, got, kersplat, env, cfg, proxy_vars, marshal_vars>>

\* line 529: return self.__proxies[id_]
UmReturn(t) ==
  LET p == PeerOf(t)
      f == Top(t)
  IN /\ f.pc = "u_ret"
     /\ resolved' = Upd(resolved, p, resolved[p] \cup {proxies[p]})
     /\ stack' = Dispatch(t, f)
     /\ UNCHANGED <<open, receiving, processing, waiting, responses, requests,
                    response_handlers, handlers, request_lock, cond_lock, cond_waiters,
                    istream_lock, istream_closed, ostream_closed, chan, ioerr,
                    request_count, ncalls, got, kersplat, env, cfg,
                    proxies, pending_proxies, events, constructed, proxy_ids, marshal_vars>>

\* =============================================================== __marshal
\* line 546: __send_message marshals its argument before it writes.  With
\* cfg.obj the results of the handlers and the arguments of the requests
\* are the local object O, which is not of a marshallable type; else they
\* are simple values (lines 432-434) and the payload is "s".
Marshalled(f) == cfg.obj => f.pl \in {"intro", "ref"}

\* lines 449-453: `if i in self.__proxied_objects`: a known object is
\* marshalled as its identity alone; an unknown one goes on to lines 455-470
\* (get_opmask, ProxyType.get, the marshalling of its arguments)
MkTest(t) ==
  LET p == PeerOf(t)
      f == Top(t)
  IN /\ f.pc \in {"h_write", "sr_send"}
     /\ cfg.obj /\ f.pl = "s"
     /\ stack' = Become(t, [f EXCEPT !.pl = IF proxied_objects[p] THEN "ref" ELSE "new"])
     /\ UNCHANGED <<open, receiving, processing, waiting, responses, requests,
                    response_handlers, handlers, request_lock, cond_lock, cond_waiters,
                    istream_lock, istream_closed, ostream_closed, chan, ioerr,
                    request_count, ncalls, got, kersplat, env, cfg, proxy_vars, marshal_vars>>

\* lines 472-473: the object is entered in proxied_objects and the payload
\* that introduces it is returned
MkStore(t) ==
  LET p == PeerOf(t)
      f == Top(t)
  IN /\ f.pc \in {"h_write", "sr_send"}
     /\ f.pl = "new"
     /\ proxied_objects' = Upd(proxied_objects, p, TRUE)
     /\ introduced' = Upd(introduced, p, introduced[p] + 1)
     /\ stack' = Become(t, [f EXCEPT !.pl = "intro"])
     /\ UNCHANGED <<open, receiving, processing, waiting, responses, requests,
                    response_handlers, handlers, request_lock, cond_lock, cond_waiters,
                    istream_lock, istream_closed, ostream_closed, chan, ioerr,
                    request_count, ncalls, got, kersplat, env, cfg, proxy_vars>>

\* What the message handler of a request (an external collaborator) may do:
\* return a result, raise an error, raise SystemExit, or call send_request
\* (once, while the thread's nesting stays within cfg.nest).
HandlerChoices(t) ==
  {"return"} \cup (IF cfg.herr THEN {"error"} ELSE {})
             \cup (IF cfg.hexit THEN {"exit"} ELSE {})
             \cup (IF NSends(stack[t]) < cfg.nest /\ Top(t).x = 0 /\ ncalls[PeerOf(t)] < MaxHandlers
                     THEN {"nest"} ELSE {})

\* line 586: result = self.message_handlers[m.type](m.type, args)
HCall(t) ==
  LET f == Top(t)
  IN /\ f.pc = "h_call"
     /\ \E c \in HandlerChoices(t) :
          stack' = IF c = "return" THEN Become(t, [f EXCEPT !.pc = "h_resp", !.x = 0])
                   ELSE IF c = "error" THEN Become(t, [f EXCEPT !.pc = "h_exc", !.out = "error", !.x = 0])
                   ELSE IF c = "exit" THEN Become(t, [f EXCEPT !.pc = "h_exit", !.out = "exit", !.x = 0])
                   ELSE Upd(stack, t, Append(SetTop(stack[t], [f EXCEPT !.x = 1]),
                                             Frame("send", "sr_lock")))
     /\ UNCHANGED <<open, receiving, processing, waiting, responses, requests,
                    response_handlers, handlers, request_lock, cond_lock, cond_waiters,
                    istream_lock, istream_closed, ostream_closed, chan, ioerr,
                    request_count, ncalls, got, kersplat, env, cfg, proxy_vars, marshal_vars>>

\* lines 279-281 of __send_response (from line 588 or 591) and lines 600-602
\* of __handle: the scheduling mutex is taken and `processing -= 1` loads
HDecLoad(t) ==
  LET p == PeerOf(t)
      f == Top(t)
  IN /\ f.pc \in {"h_resp", "h_exit", "h_dec"}
     /\ cond_lock[p] = NoThread
     /\ cond_lock' = Upd(cond_lock, p, t)
     /\ stack' = Become(t, [f EXCEPT !.pc = IF f.pc = "h_dec" THEN "h_dec2" ELSE "h_resp2",
                                     !.x = processing[p]])
     /\ UNCHANGED <<open, receiving, processing, waiting, responses, requests,
                    response_handlers, handlers, request_lock, cond_waiters,
                    istream_lock, istream_closed, ostream_closed, chan, ioerr,
                    request_count, ncalls, got, kersplat, env, cfg, proxy_vars, marshal_vars>>

\* lines 281-285 and 602-606: `processing -= 1` stores; if it is now zero
\* one waiter of the condition is notified; the mutex is released
HDecStore(t) ==
  LET p == PeerOf(t)
      f == Top(t)
  IN /\ f.pc \in {"h_resp2", "h_dec2"}
     /\ processing' = Upd(processing, p, f.x - 1)
     /\ \E ws \in (IF f.x - 1 = 0 THEN Notified(cond_waiters[p]) ELSE {cond_waiters[p]}) :
          cond_waiters' = Upd(cond_waiters, p, ws)
     /\ cond_lock' = Upd(cond_lock, p, NoThread)
     /\ stack' = Become(t, [f EXCEPT !.pc = IF f.pc = "h_dec2" THEN "h_ewrite" ELSE "h_write",
                                     !.x = 0])
     /\ UNCHANGED <<open, receiving, waiting, responses, requests,
                    response_handlers, handlers, request_lock,
                    istream_lock, istream_closed, ostream_closed, chan, ioerr,
                    request_count, ncalls, got, kersplat, env, cfg, proxy_vars, marshal_vars>>

\* __handle answering a failed request without releasing the processing slot
HExcKeepsSlot(t) ==
  LET f == Top(t)
  IN /\ f.pc = "h_exc"
     /\ stack' = IF f.m.type = "exception" THEN Upd(stack, t, Raise(stack[t], f.out))
                 ELSE Goto(t, "h_ewrite")
     /\ UNCHANGED <<open, receiving, processing, waiting, responses, requests,
                    response_handlers, handlers, request_lock, cond_lock, cond_waiters,
                    istream_lock, istream_closed, ostream_closed, chan, ioerr,
                    request_count, ncalls, got, kersplat, env, cfg, proxy_vars, marshal_vars>>

\* lines 593-597: an exception raised while an exception message is handled
\* goes up to the caller; any other is answered (lines 599-611)
HExc(t) ==
  LET f == Top(t)
  IN /\ f.pc = "h_exc"
     /\ stack' = IF f.m.type = "exception" THEN Upd(stack, t, Raise(stack[t], f.out))
                 ELSE Goto(t, "h_dec")
     /\ UNCHANGED <<open, receiving, processing, waiting, responses, requests,
                    response_handlers, handlers, request_lock, cond_lock, cond_waiters,
                    istream_lock, istream_closed, ostream_closed, chan, ioerr,
                    request_count, ncalls, got, kersplat, env, cfg, proxy_vars, marshal_vars>>

\* lines 289 and 545-555 (then 589, or 592 for SystemExit): the response
\* frame is written; a closed output stream raises ValueError, which the
\* `except Exception` of line 593 catches unless SystemExit is being handled.
\* Line 613-614: request_count falls when __handle is left.
HWrite(t) ==
  LET p == PeerOf(t)
      f == Top(t)
      closed == ostream_closed[p] > 0
      leaves == ~closed \/ f.out = "exit"
  IN /\ f.pc = "h_write"
     /\ Marshalled(f)
     /\ chan' = IF closed THEN chan ELSE Written(p, Msg("response", f.m.tag, f.pl))
     /\ stack' = IF closed /\ f.out = "exit" THEN Upd(stack, t, Raise(stack[t], "value"))
                 ELSE IF closed THEN Become(t, [f EXCEPT !.pc = "h_exc", !.out = "value"])
                 ELSE IF f.out = "exit" THEN Upd(stack, t, Raise(stack[t], "exit"))
                 ELSE Upd(stack, t, Return(stack[t], NoMsg))
     /\ request_count' = IF leaves /\ IsRequest(f.m)
                           THEN Upd(request_count, t, request_count[t] - 1) ELSE request_count
     /\ UNCHANGED <<open, receiving, processing, waiting, responses, requests,
                    response_handlers, handlers, request_lock, cond_lock, cond_waiters,
                    istream_lock, istream_closed, ostream_closed, ioerr,
                    ncalls, got, kersplat, env, cfg, proxy_vars, marshal_vars>>

\* __handle leaving a failed request without the `finally` of lines 612-614
HExcWriteKeepsCount(t) ==
  LET p == PeerOf(t)
      f == Top(t)
      closed == ostream_closed[p] > 0
  IN /\ f.pc = "h_ewrite"
     /\ chan' = IF closed THEN chan ELSE Written(p, Msg("exception", f.m.tag, "s"))
     /\ stack' = IF closed THEN Upd(stack, t, Raise(stack[t], "value"))
                 ELSE Upd(stack, t, Return(stack[t], NoMsg))
     /\ UNCHANGED <<open, receiving, processing, waiting, responses, requests,
                    response_handlers, handlers, request_lock, cond_lock, cond_waiters,
                    istream_lock, istream_closed, ostream_closed, ioerr, request_count,
                    ncalls, got, kersplat, env, cfg, proxy_vars, marshal_vars>>

\* line 611 (and 545-555): the exception frame is written and __handle
\* returns None; a closed output stream raises ValueError out of __handle
HExcWrite(t) ==
  LET p == PeerOf(t)
      f == Top(t)
      closed == ostream_closed[p] > 0
  IN /\ f.pc = "h_ewrite"
     /\ chan' = IF closed THEN chan ELSE Written(p, Msg("exception", f.m.tag, "s"))
     /\ stack' = IF closed THEN Upd(stack, t, Raise(stack[t], "value"))
                 ELSE Upd(stack, t, Return(stack[t], NoMsg))
     /\ request_count' = IF IsRequest(f.m)
                           THEN Upd(request_count, t, request_count[t] - 1) ELSE request_count
     /\ UNCHANGED <<open, receiving, processing, waiting, responses, requests,
                    response_handlers, handlers, request_lock, cond_lock, cond_waiters,
                    istream_lock, istream_closed, ostream_closed, ioerr,
                    ncalls, got, kersplat, env, cfg, proxy_vars, marshal_vars>>


\* ============================================================ send_request
Acquired(l, t) == [owner |-> t, count |-> l.count + 1]
Released(l) == IF l.count = 1 THEN [owner |-> NoThread, count |-> 0]
               ELSE [l EXCEPT !.count = @ - 1]
InsertAt(seq, i, h) == SubSeq(seq, 1, i - 1) \o <<h>> \o SubSeq(seq, i, Len(seq))

\* the nested handler pushed at the tail of the registry
InsertIndexTail(p, t) == Len(response_handlers[p]) + 1

\* lines 244-251: the index of the first handler of the calling thread, or
\* the length of the registry
InsertIndex(p, t) ==
  LET rh == response_handlers[p]
      own == {i \in 1 .. Len(rh) : handlers[p][rh[i]].thread = t}
  IN IF own = {} THEN Len(rh) + 1
     ELSE CHOOSE i \in own : \A j \in own : i <= j

\* a client thread calls send_request at top level
CCall(t) ==
  LET f == Top(t)
  IN /\ f.fn = "client" /\ f.pc \in {"c_idle", "c_done"}
     /\ f.x < cfg.calls
     /\ ncalls[PeerOf(t)] < MaxHandlers
     /\ stack' = Upd(stack, t, Append(SetTop(stack[t], [f EXCEPT !.pc = "c_call", !.x = f.x + 1,
                                                         !.out = "ok", !.m = NoMsg]),
                                      Frame("send", "sr_lock")))
     /\ UNCHANGED <<open, receiving, processing, waiting, responses, requests,
                    response_handlers, handlers, request_lock, cond_lock, cond_waiters,
                    istream_lock, istream_closed, ostream_closed, chan, ioerr,
                    request_count, ncalls, got, kersplat, env, cfg, proxy_vars, marshal_vars>>

\* send_request creating and registering its handler before it looks at
\* `self.__open`
SrRefuseAfterRegistering(t) ==
  LET p == PeerOf(t)
      h == ncalls[p] + 1
  IN /\ stack' = Upd(stack, t, Raise(stack[t], "closed"))
     /\ ncalls' = Upd(ncalls, p, h)
     /\ handlers' = [handlers EXCEPT ![p][h] = NewHandler(t, FALSE)]
     /\ response_handlers' = Upd(response_handlers, p, Append(response_handlers[p], h))
     /\ UNCHANGED request_lock

\* lines 216-217 and 264-265: on a closed connection send_request raises
\* "Connection is closed" and the finally clause releases the request lock
SrRefuse(t) ==
  /\ stack' = Upd(stack, t, Raise(stack[t], "closed"))
  /\ UNCHANGED <<request_lock, ncalls, handlers, response_handlers>>

\* lines 214-228 and 258-259: the request lock is taken; a closed connection
\* raises (and the lock is released, line 265); else the handler is created,
\* flagged syncrequest iff request_count > 0, and, for a top-level request,
\* appended to the registry
SrLock(t) ==
  LET p == PeerOf(t)
      f == Top(t)
      sync == request_count[t] > 0
      h == ncalls[p] + 1
  IN /\ f.pc = "sr_lock"
     /\ request_lock[p].owner \in {NoThread, t}
     /\ IF ~open[p]
          THEN SrRefuse(t)
          ELSE /\ request_lock' = Upd(request_lock, p, Acquired(request_lock[p], t))
               /\ ncalls' = Upd(ncalls, p, h)
               /\ handlers' = [handlers EXCEPT ![p][h] = NewHandler(t, sync)]
               /\ response_handlers' = IF sync THEN response_handlers
                                       ELSE Upd(response_handlers, p, Append(response_handlers[p], h))
               /\ stack' = Become(t, [f EXCEPT !.pc = IF sync THEN "sr_sync" ELSE "sr_send", !.h = h])
     /\ UNCHANGED <<open, receiving, processing, waiting, responses, requests,
                    cond_lock, cond_waiters,
                    istream_lock, istream_closed, ostream_closed, chan, ioerr,
                    request_count, got, kersplat, env, cfg, proxy_vars, marshal_vars>>

\* lines 235-256, under the scheduling mutex: waiting rises, a waiter is
\* notified if processing == waiting, the handler is inserted before the
\* thread's first handler
SrSync(t) ==
  LET p == PeerOf(t)
      f == Top(t)
  IN /\ f.pc = "sr_sync"
     /\ cond_lock[p] = NoThread
     /\ waiting' = Upd(waiting, p, waiting[p] + 1)
     /\ \E ws \in (IF processing[p] = waiting[p] + 1 THEN Notified(cond_waiters[p])
                   ELSE {cond_waiters[p]}) :
          cond_waiters' = Upd(cond_waiters, p, ws)
     /\ response_handlers' = Upd(response_handlers, p,
                                 InsertAt(response_handlers[p], InsertIndex(p, t), f.h))
     /\ stack' = Goto(t, "sr_send")
     /\ UNCHANGED <<open, receiving, processing, responses, requests,
                    handlers, request_lock, cond_lock,
                    istream_lock, istream_closed, ostream_closed, chan, ioerr,
                    request_count, ncalls, got, kersplat, env, cfg, proxy_vars, marshal_vars>>

\* lines 263-265 (and 545-555): the frame is written, the request lock
\* released; the frame carries the handler's number as its tag
SrSend(t) ==
  LET p == PeerOf(t)
      f == Top(t)
      closed == ostream_closed[p] > 0
      ty == IF handlers[p][f.h].syncrequest THEN "syncrequest" ELSE "request"
  IN /\ f.pc = "sr_send"
     /\ Marshalled(f)
     /\ chan' = IF closed THEN chan ELSE Written(p, Msg(ty, f.h, f.pl))
     /\ request_lock' = Upd(request_lock, p, Released(request_lock[p]))
     /\ stack' = IF closed THEN Upd(stack, t, Raise(stack[t], "value"))
                 ELSE Goto(t, "wr_enter")
     /\ UNCHANGED <<open, receiving, processing, waiting, responses, requests,
                    response_handlers, handlers, cond_lock, cond_waiters,
                    istream_lock, istream_closed, ostream_closed, ioerr,
                    request_count, ncalls, got, kersplat, env, cfg, proxy_vars, marshal_vars>>

\* ========================================================= __waitForResponse
\* lines 268-272 of send_request: what __waitForResponse returned is handled;
\* after a syncrequest the wait resumes
WrReturn(stk, m) ==
  PushHandle(SetTop(stk, [stk[Len(stk)] EXCEPT !.m = NoMsg, !.x = 0]),
             IF m.type = "syncrequest" THEN "sr_hsync" ELSE "sr_hfin", m)

GotIt(p, h, m) == IF m.type \in response_types THEN [got EXCEPT ![p][h] = m.tag] ELSE got

\* lines 416-417: if handler.syncrequest: self.__waiting -= 1
WaitingLeft(p, h) == IF handlers[p][h].syncrequest THEN waiting[p] - 1 ELSE waiting[p]

\* What lines 360-386 and 410-421 decide under the scheduling mutex for the
\* handler h holding message m0 (NoMsg for none): "park" (the while condition
\* of lines 364-368 holds), "read" (become the reader), "closed", "consume"
\* (a delivered response or exception), "deliver" (a delivered syncrequest,
\* or a message on a closed connection), or the IndexError of an empty
\* registry.
WrDecision(p, h, m0) ==
  IF open[p] /\ m0 = NoMsg
    THEN IF receiving[p] THEN "park"
         ELSE IF response_handlers[p] = <<>> THEN "index"
         ELSE IF h # Head0(p) THEN "park"
         ELSE IF processing[p] > 0 /\ processing[p] > waiting[p] THEN "park"
         ELSE "read"
  ELSE IF m0 = NoMsg
    THEN IF response_handlers[p] = <<>> THEN "closed_index" ELSE "closed"
  ELSE IF open[p] /\ m0.type \in response_types
    THEN IF response_handlers[p] = <<>> THEN "index" ELSE "consume"
  ELSE "deliver"

\* lines 356-386 and 410-427: entered from send_request (handler.get() and
\* clear()) or after handler.wait() (line 380)
WrTest(t) ==
  LET p == PeerOf(t)
      f == Top(t)
      hd == handlers[p][f.h]
      m0 == IF f.pc = "wr_enter" THEN (IF hd.event THEN hd.message ELSE NoMsg) ELSE f.m
      d == WrDecision(p, f.h, m0)
  IN /\ f.pc \in {"wr_enter", "wr_reacq"}
     /\ cond_lock[p] = NoThread
     /\ handlers' = IF f.pc = "wr_enter" /\ m0 # NoMsg
                      THEN [handlers EXCEPT ![p][f.h].event = FALSE, ![p][f.h].message = NoMsg]
                      ELSE handlers
     /\ receiving' = IF d = "read" THEN Upd(receiving, p, TRUE) ELSE receiving
     /\ waiting' = IF d \in {"closed", "closed_index", "deliver"}
                     THEN Upd(waiting, p, WaitingLeft(p, f.h)) ELSE waiting
     /\ response_handlers' = IF d \in {"closed", "consume"}
                               THEN Upd(response_handlers, p, Tail(response_handlers[p]))
                               ELSE response_handlers
     /\ cond_lock' = IF d = "consume" THEN Upd(cond_lock, p, t) ELSE cond_lock
     /\ \E ws \in (IF d \in {"index", "closed", "closed_index", "deliver"}
                     THEN Notified(cond_waiters[p]) ELSE {cond_waiters[p]}) :
          cond_waiters' = Upd(cond_waiters, p, ws)
     /\ got' = IF d = "deliver" THEN GotIt(p, f.h, m0) ELSE got
     /\ stack' = CASE d = "park" -> Become(t, [f EXCEPT !.pc = "wr_park", !.m = NoMsg])
                   [] d = "read" -> Become(t, [f EXCEPT !.pc = "wr_recv0", !.m = NoMsg])
                   [] d = "consume" -> Become(t, [f EXCEPT !.pc = "wr_dec", !.m = m0, !.x = responses[p]])
                   [] d = "deliver" -> Upd(stack, t, WrReturn(stack[t], m0))
                   [] d = "closed" -> Upd(stack, t, Raise(stack[t], "closed"))
                   [] OTHER -> Upd(stack, t, Raise(stack[t], "index"))
     /\ UNCHANGED <<open, processing, responses, requests, request_lock,
                    istream_lock, istream_closed, ostream_closed, chan, ioerr,
                    request_count, ncalls, kersplat, env, cfg, proxy_vars, marshal_vars>>

\* lines 369-377, outside the mutex: the head handler is read (IndexError
\* when the registry is empty) and nudged if it is not ours
WrPark(t) ==
  LET p == PeerOf(t)
      f == Top(t)
      empty == response_handlers[p] = <<>>
  IN /\ f.pc = "wr_park"
     /\ handlers' = IF ~empty /\ f.h # Head0(p) THEN SetEvent(p, Head0(p)) ELSE handlers
     /\ stack' = IF empty THEN Become(t, [f EXCEPT !.pc = "wr_exc_p", !.out = "index"])
                 ELSE Goto(t, "wr_wait")
     /\ UNCHANGED <<open, receiving, processing, waiting, responses, requests,
                    response_handlers, request_lock, cond_lock, cond_waiters,
                    istream_lock, istream_closed, ostream_closed, chan, ioerr,
                    request_count, ncalls, got, kersplat, env, cfg, proxy_vars, marshal_vars>>

\* lines 73-75 of ResponseHandler.wait: once the event is set the message is read
WrWait(t) ==
  LET p == PeerOf(t)
      f == Top(t)
  IN /\ f.pc = "wr_wait"
     /\ handlers[p][f.h].event
     /\ stack' = Become(t, [f EXCEPT !.pc = "wr_clear", !.m = handlers[p][f.h].message])
     /\ UNCHANGED <<open, receiving, processing, waiting, responses, requests,
                    response_handlers, handlers, request_lock, cond_lock, cond_waiters,
                    istream_lock, istream_closed, ostream_closed, chan, ioerr,
                    request_count, ncalls, got, kersplat, env, cfg, proxy_vars, marshal_vars>>

\* line 76 and 67-69 of ResponseHandler: self.clear()
WrClear(t) ==
  LET p == PeerOf(t)
      f == Top(t)
  IN /\ f.pc = "wr_clear"
     /\ handlers' = [handlers EXCEPT ![p][f.h].event = FALSE, ![p][f.h].message = NoMsg]
     /\ stack' = Goto(t, "wr_reacq")
     /\ UNCHANGED <<open, receiving, processing, waiting, responses, requests,
                    response_handlers, request_lock, cond_lock, cond_waiters,
                    istream_lock, istream_closed, ostream_closed, chan, ioerr,
                    request_count, ncalls, got, kersplat, env, cfg, proxy_vars, marshal_vars>>

\* lines 413-427: the store of `responses -= 1`, then waiting falls for a
\* syncrequest handler, a waiter is notified, the message is returned
WrDec(t) ==
  LET p == PeerOf(t)
      f == Top(t)
  IN /\ f.pc = "wr_dec"
     /\ responses' = Upd(responses, p, f.x - 1)
     /\ waiting' = Upd(waiting, p, WaitingLeft(p, f.h))
     /\ \E ws \in Notified(cond_waiters[p]) : cond_waiters' = Upd(cond_waiters, p, ws)
     /\ cond_lock' = Upd(cond_lock, p, NoThread)
     /\ got' = GotIt(p, f.h, f.m)
     /\ stack' = Upd(stack, t, WrReturn(stack[t], f.m))
     /\ UNCHANGED <<open, receiving, processing, requests,
                    response_handlers, handlers, request_lock,
                    istream_lock, istream_closed, ostream_closed, chan, ioerr,
                    request_count, ncalls, kersplat, env, cfg, proxy_vars, marshal_vars>>

\* lines 390-392 and 398-400: a frame is read, then the head of the registry
\* is compared with the handler ("we're not first"; IndexError when empty)
WrRecv(t) ==
  LET p == PeerOf(t)
      f == Top(t)
      o == ReadOutcome(p)
      m == Head(chan[p])
      empty == response_handlers[p] = <<>>
  IN /\ f.pc = "wr_recv"
     /\ CanRead(p)
     /\ istream_lock' = Upd(istream_lock, p, NoThread)
     /\ chan' = IF o = "ok" THEN Upd(chan, p, Tail(chan[p])) ELSE chan
     /\ kersplat' = IF o = "ok" /\ ~empty /\ f.h # Head0(p) THEN Upd(kersplat, p, TRUE) ELSE kersplat
     /\ stack' = IF o # "ok" THEN Become(t, [f EXCEPT !.pc = "wr_exc_r", !.out = o])
                 ELSE IF empty THEN Become(t, [f EXCEPT !.pc = "wr_exc_r", !.out = "index"])
                 ELSE IF m.type = "request" THEN Become(t, [f EXCEPT !.pc = "wr_enq", !.m = m])
                 ELSE Become(t, [f EXCEPT !.pc = "wr_fin", !.m = m])
     /\ UNCHANGED <<open, receiving, processing, waiting, responses, requests,
                    response_handlers, handlers, request_lock, cond_lock, cond_waiters,
                    istream_closed, ostream_closed, ioerr,
                    request_count, ncalls, got, env, cfg, proxy_vars, marshal_vars>>

\* line 397: self.__requests.append(m), outside the mutex; then line 398
WrEnq(t) ==
  LET p == PeerOf(t)
      f == Top(t)
  IN /\ f.pc = "wr_enq"
     /\ requests' = Upd(requests, p, Append(requests[p], f.m))
     /\ stack' = Become(t, [f EXCEPT !.pc = "wr_recv0", !.m = NoMsg])
     /\ UNCHANGED <<open, receiving, processing, waiting, responses,
                    response_handlers, handlers, request_lock, cond_lock, cond_waiters,
                    istream_lock, istream_closed, ostream_closed, chan, ioerr,
                    request_count, ncalls, got, kersplat, env, cfg, proxy_vars, marshal_vars>>

\* lines 402-427 after a read: receiving is cleared under the mutex; a
\* response or exception removes the head handler, waiting falls, a waiter
\* is notified and the message returned; a syncrequest loads processing
WrFin(t) ==
  LET p == PeerOf(t)
      f == Top(t)
      resp == f.m.type \in response_types
      empty == response_handlers[p] = <<>>
  IN /\ f.pc = "wr_fin"
     /\ cond_lock[p] = NoThread
     /\ receiving' = Upd(receiving, p, FALSE)
     /\ response_handlers' = IF resp /\ ~empty
                               THEN Upd(response_handlers, p, Tail(response_handlers[p]))
                               ELSE response_handlers
     /\ waiting' = IF resp /\ ~empty THEN Upd(waiting, p, WaitingLeft(p, f.h)) ELSE waiting
     /\ cond_lock' = IF resp THEN cond_lock ELSE Upd(cond_lock, p, t)
     /\ \E ws \in (IF resp THEN Notified(cond_waiters[p]) ELSE {cond_waiters[p]}) :
          cond_waiters' = Upd(cond_waiters, p, ws)
     /\ got' = IF resp /\ ~empty THEN GotIt(p, f.h, f.m) ELSE got
     /\ stack' = IF ~resp THEN Become(t, [f EXCEPT !.pc = "wr_sync", !.x = processing[p]])
                 ELSE IF empty THEN Upd(stack, t, Raise(stack[t], "index"))
                 ELSE Upd(stack, t, WrReturn(stack[t], f.m))
     /\ UNCHANGED <<open, processing, responses, requests, handlers, request_lock,
                    istream_lock, istream_closed, ostream_closed, chan, ioerr,
                    request_count, ncalls, kersplat, env, cfg, proxy_vars, marshal_vars>>

\* lines 409-427: the store of `processing += 1` for a syncrequest read by
\* this thread; waiting falls for a syncrequest handler; the syncrequest is
\* returned
WrSync(t) ==
  LET p == PeerOf(t)
      f == Top(t)
  IN /\ f.pc = "wr_sync"
     /\ processing' = Upd(processing, p, f.x + 1)
     /\ waiting' = Upd(waiting, p, WaitingLeft(p, f.h))
     /\ \E ws \in Notified(cond_waiters[p]) : cond_waiters' = Upd(cond_waiters, p, ws)
     /\ cond_lock' = Upd(cond_lock, p, NoThread)
     /\ stack' = Upd(stack, t, WrReturn(stack[t], f.m))
     /\ UNCHANGED <<open, receiving, responses, requests,
                    response_handlers, handlers, request_lock,
                    istream_lock, istream_closed, ostream_closed, chan, ioerr,
                    request_count, ncalls, got, kersplat, env, cfg, proxy_vars, marshal_vars>>

\* the finally clauses of lines 379-380, 401-403 and 424-426 when an
\* exception leaves __waitForResponse outside the mutex
WrExc(t) ==
  LET p == PeerOf(t)
      f == Top(t)
  IN /\ f.pc \in {"wr_exc_p", "wr_exc_r"}
     /\ cond_lock[p] = NoThread
     /\ receiving' = IF f.pc = "wr_exc_r" THEN Upd(receiving, p, FALSE) ELSE receiving
     /\ \E ws \in Notified(cond_waiters[p]) : cond_waiters' = Upd(cond_waiters, p, ws)
     /\ stack' = Upd(stack, t, Raise(stack[t], f.out))
     /\ UNCHANGED <<open, processing, waiting, responses, requests,
                    response_handlers, handlers, request_lock, cond_lock,
                    istream_lock, istream_closed, ostream_closed, chan, ioerr,
                    request_count, ncalls, got, kersplat, env, cfg, proxy_vars, marshal_vars>>


\* =================================================================== close
\* a thread (or __del__, lines 145-147) calls close()
KCall(t) ==
  LET f == Top(t)
  IN /\ f.fn = "closer" /\ f.pc \in {"k_idle", "k_done"}
     /\ f.x < cfg.closes
     /\ stack' = Upd(stack, t, Append(SetTop(stack[t], [f EXCEPT !.pc = "k_call", !.x = f.x + 1]),
                                      Frame("close", "cl_start")))
     /\ UNCHANGED <<open, receiving, processing, waiting, responses, requests,
                    response_handlers, handlers, request_lock, cond_lock, cond_waiters,
                    istream_lock, istream_closed, ostream_closed, chan, ioerr,
                    request_count, ncalls, got, kersplat, env, cfg, proxy_vars, marshal_vars>>

\* line 153: if self.__open
ClStart(t) ==
  /\ Pc(t) = "cl_start"
  /\ stack' = IF open[PeerOf(t)] THEN Goto(t, "cl_lock")
              ELSE Upd(stack, t, Return(stack[t], NoMsg))
  /\ UNCHANGED <<open, receiving, processing, waiting, responses, requests,
                 response_handlers, handlers, request_lock, cond_lock, cond_waiters,
                 istream_lock, istream_closed, ostream_closed, chan, ioerr,
                 request_count, ncalls, got, kersplat, env, cfg, proxy_vars, marshal_vars>>

\* lines 154-161: the request lock is taken; if the connection was closed
\* meanwhile close() returns, the lock still held (the return of line 156 is
\* outside the try whose finally releases it); else open becomes False
ClLock(t) ==
  LET p == PeerOf(t)
  IN /\ Pc(t) = "cl_lock"
     /\ request_lock[p].owner \in {NoThread, t}
     /\ request_lock' = Upd(request_lock, p, Acquired(request_lock[p], t))
     /\ open' = Upd(open, p, FALSE)
     /\ stack' = IF open[p] THEN Goto(t, "cl_cond")
                 ELSE Upd(stack, t, Return(stack[t], NoMsg))
     /\ UNCHANGED <<receiving, processing, waiting, responses, requests,
                    response_handlers, handlers, cond_lock, cond_waiters,
                    istream_lock, istream_closed, ostream_closed, chan, ioerr,
                    request_count, ncalls, got, kersplat, env, cfg, proxy_vars, marshal_vars>>

\* line 170-171: close() must go on waiting
ClBlocked(p) == Len(response_handlers[p]) > 0 \/ processing[p] > 0

\* lines 162-174, under the scheduling mutex: every waiter of the condition
\* and every registered handler is woken, then close() waits on the
\* condition until the registry is empty and nothing is processed
ClCond(t) ==
  LET p == PeerOf(t)
      f == Top(t)
      first == f.pc = "cl_cond"
      rh == response_handlers[p]
      inreg == {rh[i] : i \in 1 .. Len(rh)}
  IN /\ first \/ (f.pc = "cl_wait" /\ t \notin cond_waiters[p])
     /\ cond_lock[p] = NoThread
     /\ handlers' = IF first
                      THEN [handlers EXCEPT ![p] = [h \in HandlerIds |->
                              IF h \in inreg THEN [@[h] EXCEPT !.event = TRUE] ELSE @[h]]]
                      ELSE handlers
     /\ cond_waiters' = Upd(cond_waiters, p,
                            (IF first THEN {} ELSE cond_waiters[p])
                              \cup (IF ClBlocked(p) THEN {t} ELSE {}))
     /\ stack' = Goto(t, IF ClBlocked(p) THEN "cl_wait" ELSE "cl_ostream")
     /\ UNCHANGED <<open, receiving, processing, waiting, responses, requests,
                    response_handlers, request_lock, cond_lock,
                    istream_lock, istream_closed, ostream_closed, chan, ioerr,
                    request_count, ncalls, got, kersplat, env, cfg, proxy_vars, marshal_vars>>

\* lines 176-181: self.__ostream.close() under the output-stream lock
ClOstream(t) ==
  LET p == PeerOf(t)
  IN /\ Pc(t) = "cl_ostream"
     /\ ostream_closed' = Upd(ostream_closed, p, ostream_closed[p] + 1)
     /\ stack' = Goto(t, "cl_istream")
     /\ UNCHANGED <<open, receiving, processing, waiting, responses, requests,
                    response_handlers, handlers, request_lock, cond_lock, cond_waiters,
                    istream_lock, istream_closed, chan, ioerr,
                    request_count, ncalls, got, kersplat, env, cfg, proxy_vars, marshal_vars>>

\* lines 182-189: self.__istream.close() under the input-stream lock, then
\* the request lock is released and close() returns
ClIstream(t) ==
  LET p == PeerOf(t)
  IN /\ Pc(t) = "cl_istream"
     /\ istream_lock[p] = NoThread
     /\ istream_closed' = Upd(istream_closed, p, istream_closed[p] + 1)
     /\ request_lock' = Upd(request_lock, p, Released(request_lock[p]))
     /\ stack' = Upd(stack, t, Return(stack[t], NoMsg))
     /\ UNCHANGED <<open, receiving, processing, waiting, responses, requests,
                    response_handlers, handlers, cond_lock, cond_waiters,
                    istream_lock, ostream_closed, chan, ioerr,
                    request_count, ncalls, got, kersplat, env, cfg, proxy_vars, marshal_vars>>

\* ======================================================== the abstract peer
\* The peer of connection "a" when it is not modelled as a second
\* connection: it answers our requests in the order their frames were
\* written, sends requests of its own, and may call back (a syncrequest)
\* while it handles a request of ours; until we have answered the call-back
\* it answers only our syncrequests (its later requests wait in its queue).
FirstIdx(seq, types) ==
  LET S == {i \in 1 .. Len(seq) : seq[i].type \in types}
  IN IF S = {} THEN 0 ELSE CHOOSE i \in S : \A j \in S : i <= j
RemoveAt(seq, i) == SubSeq(seq, 1, i - 1) \o SubSeq(seq, i + 1, Len(seq))

\* the payloads of the peer's frames: simple values and, with cfg.envbad,
\* payloads whose first byte is no tag that __unmarshal knows (line 534-535)
EnvPayloads == {"s"} \cup (IF cfg.envbad THEN {"bad"} ELSE {})

EnvAnswer ==
  LET i == FirstIdx(chan["b"], IF env.sync = 1 THEN {"syncrequest"} ELSE request_types)
      m == chan["b"][i]
  IN /\ i # 0
     /\ env.held.type \notin response_types
     /\ \E kind \in {"response"} \cup (IF cfg.envexc THEN {"exception"} ELSE {}) :
          \E pl \in EnvPayloads :
            chan' = [chan EXCEPT !["b"] = RemoveAt(@, i),
                                 !["a"] = Append(@, Msg(kind, m.tag, pl))]
     /\ UNCHANGED <<open, receiving, processing, waiting, responses, requests,
                    response_handlers, handlers, request_lock, cond_lock, cond_waiters,
                    istream_lock, istream_closed, ostream_closed, ioerr,
                    request_count, stack, ncalls, got, kersplat, env, cfg, proxy_vars, marshal_vars>>

EnvCallback ==
  /\ FirstIdx(chan["b"], request_types) # 0
  /\ env.sync = 0
  /\ env.ncb < cfg.envcb
  /\ chan' = [chan EXCEPT !["a"] = Append(@, Msg("syncrequest", EnvCbTag(env.ncb + 1), "s"))]
  /\ env' = [env EXCEPT !.sync = 1, !.ncb = @ + 1]
  /\ UNCHANGED <<open, receiving, processing, waiting, responses, requests,
                 response_handlers, handlers, request_lock, cond_lock, cond_waiters,
                 istream_lock, istream_closed, ostream_closed, ioerr,
                 request_count, stack, ncalls, got, kersplat, cfg, proxy_vars, marshal_vars>>

EnvReply ==
  LET i == FirstIdx(chan["b"], response_types)
      m == chan["b"][i]
  IN /\ i # 0
     /\ chan' = [chan EXCEPT !["b"] = RemoveAt(@, i)]
     /\ env' = IF m.tag > EnvCbTag(0) THEN [env EXCEPT !.sync = 0] ELSE env
     /\ UNCHANGED <<open, receiving, processing, waiting, responses, requests,
                    response_handlers, handlers, request_lock, cond_lock, cond_waiters,
                    istream_lock, istream_closed, ostream_closed, ioerr,
                    request_count, stack, ncalls, got, kersplat, cfg, proxy_vars, marshal_vars>>

EnvRequest ==
  /\ env.nreq < cfg.envreq
  /\ \E pl \in EnvPayloads :
       chan' = [chan EXCEPT !["a"] = Append(@, Msg("request", EnvReqTag(env.nreq + 1), pl))]
  /\ env' = [env EXCEPT !.nreq = @ + 1]
  /\ UNCHANGED <<open, receiving, processing, waiting, responses, requests,
                 response_handlers, handlers, request_lock, cond_lock, cond_waiters,
                 istream_lock, istream_closed, ostream_closed, ioerr,
                 request_count, stack, ncalls, got, kersplat, cfg, proxy_vars, marshal_vars>>

\* The peer's object K.  __send_message marshals its argument (line 546)
\* before it takes the output lock (lines 549-555), and __marshal emits the
\* introduction of an object once (lines 455-473) and its identity alone
\* from then on (lines 450-451).  So a thread of the peer that has marshalled
\* the introduction (env.held) may write its frame after another thread of
\* the peer has marshalled and written a frame that refers to K.

\* the frames a thread of the peer may be building: the answer to our oldest
\* request, or a request of its own
EnvFrames(pl) ==
  LET i == FirstIdx(chan["b"], request_types)
  IN (IF i # 0 /\ env.sync = 0 /\ env.held.type \notin response_types
        THEN {Msg("response", chan["b"][i].tag, pl)} ELSE {})
     \cup (IF env.nreq < cfg.envreq
             THEN {Msg("request", EnvReqTag(env.nreq + 1), pl)} ELSE {})

\* the peer has taken the request a frame answers, or counted its own request
EnvBuilt(m) ==
  /\ chan' = [chan EXCEPT !["b"] = IF m.type = "response"
                                     THEN RemoveAt(@, FirstIdx(@, request_types)) ELSE @,
                          !["a"] = IF m.pl = "ref" THEN Append(@, m) ELSE @]
  /\ env' = [env EXCEPT !.nreq = IF m.type = "request" THEN @ + 1 ELSE @,
                        !.intro = IF m.pl = "intro" THEN @ + 1 ELSE @,
                        !.held = IF m.pl = "intro" THEN m ELSE @,
                        !.refs = IF m.pl = "ref" THEN @ + 1 ELSE @]

\* a thread of the peer marshals K for the first time (line 546 with lines
\* 455-473) and has not written the frame yet
EnvIntroduce ==
  /\ env.intro < cfg.envintro
  /\ env.held = NoMsg
  /\ \E m \in EnvFrames("intro") : EnvBuilt(m)
  /\ UNCHANGED <<open, receiving, processing, waiting, responses, requests,
                 response_handlers, handlers, request_lock, cond_lock, cond_waiters,
                 istream_lock, istream_closed, ostream_closed, ioerr,
                 request_count, stack, ncalls, got, kersplat, cfg, proxy_vars, marshal_vars>>

\* the thread that marshalled the introduction writes its frame (lines 549-555)
EnvFlush ==
  /\ env.held # NoMsg
  /\ chan' = [chan EXCEPT !["a"] = Append(@, env.held)]
  /\ env' = [env EXCEPT !.held = NoMsg]
  /\ UNCHANGED <<open, receiving, processing, waiting, responses, requests,
                 response_handlers, handlers, request_lock, cond_lock, cond_waiters,
                 istream_lock, istream_closed, ostream_closed, ioerr,
                 request_count, stack, ncalls, got, kersplat, cfg, proxy_vars, marshal_vars>>

\* another thread of the peer marshals K again (lines 450-451: the identity
\* alone) and writes its frame
EnvRefer ==
  /\ env.intro >= 1
  /\ env.refs < MaxRefs
  /\ \E m \in EnvFrames("ref") : EnvBuilt(m)
  /\ UNCHANGED <<open, receiving, processing, waiting, responses, requests,
                 response_handlers, handlers, request_lock, cond_lock, cond_waiters,
                 istream_lock, istream_closed, ostream_closed, ioerr,
                 request_count, stack, ncalls, got, kersplat, cfg, proxy_vars, marshal_vars>>

\* the transport toward "a" fails: reads raise IOError once the frames
\* already written have been read
EnvFail ==
  /\ cfg.ioerr
  /\ ~ioerr["a"]
  /\ ioerr' = [ioerr EXCEPT !["a"] = TRUE]
  /\ UNCHANGED <<open, receiving, processing, waiting, responses, requests,
                 response_handlers, handlers, request_lock, cond_lock, cond_waiters,
                 istream_lock, istream_closed, ostream_closed, chan,
                 request_count, stack, ncalls, got, kersplat, env, cfg, proxy_vars, marshal_vars>>

\* ================================================================= actions
ServeForever(t) ==
  CASE Pc(t) = "sf_loop" -> SfLoop(t)
    [] Pc(t) = "sf_check" -> SfCheck(t)
    [] OTHER -> FALSE

WaitForRequest(t) ==
  CASE Pc(t) \in {"wq_enter", "wq_wait"} -> WqTest(t)
    [] Pc(t) = "wq_deq" -> WqDeq(t)
    [] Pc(t) = "wq_recv" -> WqRecv(t)
    [] Pc(t) \in {"wq_resp", "wq_sync", "wq_rq"} -> WqStore(t)
    [] Pc(t) = "wq_set0" -> WqSet0(t)
    [] Pc(t) = "wq_set1" -> WqSet1(t)
    [] Pc(t) = "wq_nudge" -> WqNudge(t)
    [] Pc(t) = "wq_fin" -> WqFin(t)
    [] OTHER -> FALSE

SendRequest(t) ==
  CASE Pc(t) \in {"c_idle", "c_done"} -> CCall(t)
    [] Pc(t) = "sr_lock" -> SrLock(t)
    [] Pc(t) = "sr_sync" -> SrSync(t)
    [] Pc(t) = "sr_send" -> SrSend(t)
    [] OTHER -> FALSE

WaitForResponse(t) ==
  CASE Pc(t) \in {"wr_enter", "wr_reacq"} -> WrTest(t)
    [] Pc(t) = "wr_park" -> WrPark(t)
    [] Pc(t) = "wr_wait" -> WrWait(t)
    [] Pc(t) = "wr_clear" -> WrClear(t)
    [] Pc(t) = "wr_dec" -> WrDec(t)
    [] Pc(t) = "wr_recv" -> WrRecv(t)
    [] Pc(t) = "wr_enq" -> WrEnq(t)
    [] Pc(t) = "wr_fin" -> WrFin(t)
    [] Pc(t) = "wr_sync" -> WrSync(t)
    [] Pc(t) \in {"wr_exc_p", "wr_exc_r"} -> WrExc(t)
    [] OTHER -> FALSE

Handle(t) ==
  CASE Pc(t) = "h_start" -> HStart(t)
    [] Pc(t) = "h_call" -> HCall(t)
    [] Pc(t) \in {"h_resp", "h_exit", "h_dec"} -> HDecLoad(t)
    [] Pc(t) \in {"h_resp2", "h_dec2"} -> HDecStore(t)
    [] Pc(t) = "h_exc" -> HExc(t)
    [] Pc(t) = "h_write" -> HWrite(t)
    [] Pc(t) = "h_ewrite" -> HExcWrite(t)
    [] OTHER -> FALSE

Marshal(t) ==
  CASE Top(t).pl = "s" -> MkTest(t)
    [] Top(t).pl = "new" -> MkStore(t)
    [] OTHER -> FALSE

Unmarshal(t) ==
  CASE Pc(t) = "u_new" -> UmNew(t)
    [] Pc(t) = "u_reg" -> UmReg(t)
    [] Pc(t) = "u_wake" -> UmWake(t)
    [] Pc(t) \in {"u_known", "u_chk"} -> UmKnown(t)
    [] Pc(t) = "u_pend" -> UmPend(t)
    [] Pc(t) = "u_wait" -> UmWait(t)
    [] Pc(t) = "u_ret" -> UmReturn(t)
    [] OTHER -> FALSE

Close(t) ==
  CASE Pc(t) \in {"k_idle", "k_done"} -> KCall(t)
    [] Pc(t) = "cl_start" -> ClStart(t)
    [] Pc(t) = "cl_lock" -> ClLock(t)
    [] Pc(t) \in {"cl_cond", "cl_wait"} -> ClCond(t)
    [] Pc(t) = "cl_ostream" -> ClOstream(t)
    [] Pc(t) = "cl_istream" -> ClIstream(t)
    [] OTHER -> FALSE

\* =========================================================== initial states
Base(role) ==
  CASE role = "server" -> Frame("serve", "sf_loop")
    [] role = "client" -> Frame("client", "c_idle")
    [] role = "closer" -> Frame("closer", "k_idle")
    [] OTHER -> Frame("idle", "idle")

Cfg0 == [calls |-> 0, closes |-> 0, nest |-> 0, herr |-> FALSE, hexit |-> FALSE,
         envreq |-> 0, envcb |-> 0, envexc |-> FALSE, ioerr |-> FALSE, obj |-> FALSE,
         envbad |-> FALSE, envintro |-> 1]

\* lines 93-142: the state of a connection after __init__
InitWith(roles, c) ==
  /\ open = [p \in Peers |-> TRUE]
  /\ receiving = [p \in Peers |-> FALSE]
  /\ processing = [p \in Peers |-> 0]
  /\ waiting = [p \in Peers |-> 0]
  /\ responses = [p \in Peers |-> 0]
  /\ requests = [p \in Peers |-> <<>>]
  /\ response_handlers = [p \in Peers |-> <<>>]
  /\ handlers = [p \in Peers |-> [h \in HandlerIds |-> NoHandler]]
  /\ request_lock = [p \in Peers |-> [owner |-> NoThread, count |-> 0]]
  /\ cond_lock = [p \in Peers |-> NoThread]
  /\ cond_waiters = [p \in Peers |-> {}]
  /\ istream_lock = [p \in Peers |-> NoThread]
  /\ istream_closed = [p \in Peers |-> 0]
  /\ ostream_closed = [p \in Peers |-> 0]
  /\ chan = [p \in Peers |-> <<>>]
  /\ ioerr = [p \in Peers |-> FALSE]
  /\ request_count = [t \in Threads |-> 0]
  /\ stack = [t \in Threads |-> <<Base(roles[t])>>]
  /\ ncalls = [p \in Peers |-> 0]
  /\ got = [p \in Peers |-> [h \in HandlerIds |-> 0]]
  /\ kersplat = [p \in Peers |-> FALSE]
  /\ env = [sync |-> 0, nreq |-> 0, ncb |-> 0, intro |-> 0, refs |-> 0, held |-> NoMsg]
  /\ cfg = c
  /\ proxies = [p \in Peers |-> 0]
  /\ pending_proxies = [p \in Peers |-> 0]
  /\ events = [p \in Peers |-> <<>>]
  /\ constructed = [p \in Peers |-> 0]
  /\ resolved = [p \in Peers |-> {}]
  /\ proxy_ids = [p \in Peers |-> {}]
  /\ proxied_objects = [p \in Peers |-> FALSE]
  /\ introduced = [p \in Peers |-> 0]

Roles(srv, clients, closers) ==
  [t \in Threads |-> IF t \in srv THEN "server"
                     ELSE IF t \in clients THEN "client"
                     ELSE IF t \in closers THEN "closer" ELSE "idle"]

\* ---------------------------------------------------------------------------
\* Spec: one connection with a serve_forever thread and two client threads;
\* the peer answers in order, sends a request of its own, and the handler of
\* that request returns or fails.
Init ==
  InitWith(Roles({"a_srv"}, {"a_c1", "a_c2"}, {}),
           [Cfg0 EXCEPT !.calls = MaxCalls, !.envreq = MaxEnvReq, !.herr = TRUE,
                        !.envexc = TRUE])

Next ==
  \/ \E t \in ThreadsA : ServeForever(t)
  \/ \E t \in ThreadsA : WaitForRequest(t)
  \/ \E t \in ThreadsA : RecvLock(t)
  \/ \E t \in ThreadsA : SendRequest(t)
  \/ \E t \in ThreadsA : WaitForResponse(t)
  \/ \E t \in ThreadsA : Handle(t)
  \/ EnvAnswer
  \/ EnvReply
  \/ EnvRequest

Spec == Init /\ [][Next]_vars

\* ---------------------------------------------------------------------------
\* SpecClose: the same connection with a thread that calls close() once.
InitClose ==
  InitWith(Roles({"a_srv"}, {"a_c1", "a_c2"}, {"a_k1"}),
           [Cfg0 EXCEPT !.calls = MaxCalls, !.closes = 1, !.envreq = MaxEnvReq])

NextClose ==
  \/ \E t \in ThreadsA : ServeForever(t)
  \/ \E t \in ThreadsA : WaitForRequest(t)
  \/ \E t \in ThreadsA : RecvLock(t)
  \/ \E t \in ThreadsA : SendRequest(t)
  \/ \E t \in ThreadsA : WaitForResponse(t)
  \/ \E t \in ThreadsA : Handle(t)
  \/ \E t \in ThreadsA : Close(t)
  \/ EnvAnswer
  \/ EnvReply
  \/ EnvRequest

SpecClose == InitClose /\ [][NextClose]_vars

\* what one thread can do
Step(t) ==
  \/ ServeForever(t)
  \/ WaitForRequest(t)
  \/ RecvLock(t)
  \/ SendRequest(t)
  \/ WaitForResponse(t)
  \/ Handle(t)
  \/ Close(t)

\* the same, with the scheduler's guarantee that a thread that can go on
\* does, and a peer that answers what it has been asked
SpecCloseFair ==
  /\ SpecClose
  /\ \A t \in {"a_srv", "a_c1", "a_c2", "a_k1"} : WF_vars(Step(t))
  /\ WF_vars(EnvAnswer)
  /\ WF_vars(EnvReply)

\* ---------------------------------------------------------------------------
\* SpecShutdown: a serve_forever thread, one client and two threads that
\* call close(), each up to MaxCloses times (concurrent and repeated closes).
InitShutdown ==
  InitWith(Roles({"a_srv"}, {"a_c1"}, {"a_k1", "a_k2"}),
           [Cfg0 EXCEPT !.calls = MaxCalls, !.closes = MaxCloses, !.envreq = MaxEnvReq])

SpecShutdown == InitShutdown /\ [][NextClose]_vars

\* ---------------------------------------------------------------------------
\* SpecIo: a serve_forever thread and two client threads on a transport that
\* may fail: once it has, a read of the input stream raises IOError.
InitIo ==
  InitWith(Roles({"a_srv"}, {"a_c1", "a_c2"}, {}),
           [Cfg0 EXCEPT !.calls = MaxCalls, !.ioerr = TRUE])

NextIo ==
  \/ \E t \in ThreadsA : ServeForever(t)
  \/ \E t \in ThreadsA : WaitForRequest(t)
  \/ \E t \in ThreadsA : RecvLock(t)
  \/ \E t \in ThreadsA : SendRequest(t)
  \/ \E t \in ThreadsA : WaitForResponse(t)
  \/ \E t \in ThreadsA : Handle(t)
  \/ EnvAnswer
  \/ EnvFail

SpecIo == InitIo /\ [][NextIo]_vars

\* ---------------------------------------------------------------------------
\* SpecNest: one connection with a serve_forever thread and two client
\* threads; the peer sends requests and calls back (a syncrequest) while it
\* handles a request of ours, and our handlers may issue a nested request.
InitNest ==
  InitWith(Roles({"a_srv"}, {"a_c1", "a_c2"}, {}),
           [Cfg0 EXCEPT !.calls = MaxCalls, !.nest = MaxDepth, !.envcb = MaxEnvCb,
                        !.envreq = MaxEnvReq])

NextNest ==
  \/ \E t \in ThreadsA : ServeForever(t)
  \/ \E t \in ThreadsA : WaitForRequest(t)
  \/ \E t \in ThreadsA : RecvLock(t)
  \/ \E t \in ThreadsA : SendRequest(t)
  \/ \E t \in ThreadsA : WaitForResponse(t)
  \/ \E t \in ThreadsA : Handle(t)
  \/ EnvAnswer
  \/ EnvCallback
  \/ EnvReply
  \/ EnvRequest

SpecNest == InitNest /\ [][NextNest]_vars

\* ---------------------------------------------------------------------------
\* SpecPair: two connected BaseConnections.  Peer "a" has one client thread,
\* peer "b" a serve_forever thread; a handler returns or calls back into the
\* other peer, a thread holding at most MaxDepth send_request calls at once.
InitPair ==
  InitWith(Roles({"b_srv"}, {"a_c1"}, {}),
           [Cfg0 EXCEPT !.calls = MaxCalls, !.nest = MaxDepth])

NextPair ==
  \/ \E t \in Threads : ServeForever(t)
  \/ \E t \in Threads : WaitForRequest(t)
  \/ \E t \in Threads : RecvLock(t)
  \/ \E t \in Threads : SendRequest(t)
  \/ \E t \in Threads : WaitForResponse(t)
  \/ \E t \in Threads : Handle(t)

SpecPair == InitPair /\ [][NextPair]_vars

\* the same, with the scheduler's guarantee that while some thread can take
\* a step a step is taken
SpecPairFair == SpecPair /\ WF_vars(NextPair)

\* ---------------------------------------------------------------------------
\* SpecPairErr: the two connected peers, with message handlers that may
\* fail with an error instead of returning.
InitPairErr ==
  InitWith(Roles({"b_srv"}, {"a_c1"}, {}),
           [Cfg0 EXCEPT !.calls = MaxCalls, !.nest = MaxDepth, !.herr = TRUE])

SpecPairErr == InitPairErr /\ [][NextPair]_vars

\* ===========================================================================
\* Properties

\* ---------------------------------------------------------------------------
\* SpecProxy: one connection with a serve_forever thread and a client thread;
\* the peer answers, sends requests of its own, and two of its frames carry
\* its object K: one introduces it, one refers to it by identity.
InitProxy ==
  InitWith(Roles({"a_srv"}, {"a_c1"}, {}),
           [Cfg0 EXCEPT !.calls = MaxCalls, !.envreq = MaxEnvReq + 1])

NextProxy ==
  \/ \E t \in ThreadsA : ServeForever(t)
  \/ \E t \in ThreadsA : WaitForRequest(t)
  \/ \E t \in ThreadsA : RecvLock(t)
  \/ \E t \in ThreadsA : SendRequest(t)
  \/ \E t \in ThreadsA : WaitForResponse(t)
  \/ \E t \in ThreadsA : Handle(t)
  \/ \E t \in ThreadsA : Unmarshal(t)
  \/ EnvAnswer
  \/ EnvReply
  \/ EnvRequest
  \/ EnvIntroduce
  \/ EnvFlush
  \/ EnvRefer

SpecProxy == InitProxy /\ [][NextProxy]_vars

\* every thread that can take a step eventually takes one, and the peer
\* writes the frames it has built and answers what it can
SpecProxyFair ==
  /\ SpecProxy
  /\ \A t \in {"a_srv", "a_c1"} : WF_vars(Step(t) \/ Unmarshal(t))
  /\ WF_vars(EnvFlush) /\ WF_vars(EnvAnswer) /\ WF_vars(EnvReply)

\* ---------------------------------------------------------------------------
\* SpecProxyTwice: the same connection and peer; two threads of the peer
\* marshal K for the first time at once (both pass the test of line 450
\* before either stores at line 472), so two of its frames introduce K.
InitProxyTwice ==
  InitWith(Roles({"a_srv"}, {"a_c1"}, {}),
           [Cfg0 EXCEPT !.calls = MaxCalls, !.envreq = MaxEnvReq + 1, !.envintro = 2])

SpecProxyTwice == InitProxyTwice /\ [][NextProxy]_vars

\* ---------------------------------------------------------------------------
\* SpecMarshal: one connection with a serve_forever thread and a client
\* thread; the peer sends requests and answers ours; every result a handler
\* returns and every argument a client sends is the local object O.
InitMarshal ==
  InitWith(Roles({"a_srv"}, {"a_c1"}, {}),
           [Cfg0 EXCEPT !.calls = MaxCalls + 1, !.envreq = MaxEnvReq + 1, !.obj = TRUE])

NextMarshal ==
  \/ \E t \in ThreadsA : ServeForever(t)
  \/ \E t \in ThreadsA : WaitForRequest(t)
  \/ \E t \in ThreadsA : RecvLock(t)
  \/ \E t \in ThreadsA : SendRequest(t)
  \/ \E t \in ThreadsA : WaitForResponse(t)
  \/ \E t \in ThreadsA : Handle(t)
  \/ \E t \in ThreadsA : Marshal(t)
  \/ EnvAnswer
  \/ EnvReply
  \/ EnvRequest

SpecMarshal == InitMarshal /\ [][NextMarshal]_vars

\* ---------------------------------------------------------------------------
\* SpecPairExit: the two connected peers, with message handlers that may
\* return, call back, fail with an error, or raise SystemExit.
InitPairExit ==
  InitWith(Roles({"b_srv"}, {"a_c1"}, {}),
           [Cfg0 EXCEPT !.calls = MaxCalls, !.nest = MaxDepth, !.herr = TRUE,
                        !.hexit = TRUE])

SpecPairExit == InitPairExit /\ [][NextPair]_vars

\* ---------------------------------------------------------------------------
\* SpecBad: one connection with a serve_forever thread and a client thread;
\* the peer sends requests and answers ours, and a payload of its frames
\* may be one that __unmarshal rejects.
InitBad ==
  InitWith(Roles({"a_srv"}, {"a_c1"}, {}),
           [Cfg0 EXCEPT !.calls = MaxCalls + 1, !.envreq = MaxEnvReq + 1, !.envbad = TRUE,
                        !.herr = TRUE])

SpecBad == InitBad /\ [][Next]_vars

\* ---------------------------------------------------------------------------
\* SpecQueue: one connection with a serve_forever thread and one client
\* thread; the peer answers the client's request and sends requests of its
\* own, which whoever reads the input stream at the time receives.
InitQueue ==
  InitWith(Roles({"a_srv"}, {"a_c1"}, {}),
           [Cfg0 EXCEPT !.calls = MaxCalls, !.envreq = MaxEnvReq + 1])

SpecQueue == InitQueue /\ [][Next]_vars

\* the same, with a scheduler that runs every thread that can go on and a
\* peer that answers what it has been asked
SpecQueueFair ==
  /\ SpecQueue
  /\ \A t \in {"a_srv", "a_c1"} : WF_vars(Step(t))
  /\ WF_vars(EnvAnswer)
  /\ WF_vars(EnvReply)

\* the statements between `self.__receiving = True` (lines 322, 387) and
\* `self.__receiving = False` (lines 349, 403)
ReaderPcs ==
  {"wq_recv0", "wq_recv", "wq_resp", "wq_sync", "wq_rq", "wq_set0", "wq_set1",
   "wq_nudge", "wq_fin", "wr_recv0", "wr_recv", "wr_enq", "wr_fin", "wr_exc_r"}
InRecv(p) ==
  {t \in Threads : PeerOf(t) = p /\ \E i \in 1 .. Len(stack[t]) : stack[t][i].pc \in ReaderPcs}
Parked(t) == Pc(t) \in {"wr_park", "wr_wait", "wq_wait"}

\* C1: single reader.  In every reachable state at most one thread of a
\* connection is between setting receiving = True and clearing it, whatever
\* the interleaving of serve_forever, send_request and close().
SingleReader == \A p \in Peers : Cardinality(InRecv(p)) <= 1

\* a thread is in __recv while close() has begun and two other threads, kept
\* out of the stream, are parked
SingleReaderWitness ==
  /\ ~open["a"]
  /\ \E t1 \in InRecv("a") : Pc(t1) \in {"wq_recv", "wr_recv"}
  /\ Cardinality({t \in ThreadsA : Parked(t)}) >= 2

\* C2: FIFO matching.  Every top-level send_request is given the response
\* (or exception) frame that answers its own request, never another
\* caller's.
FifoMatching == \A p \in Peers : \A h \in HandlerIds : got[p][h] # 0 => got[p][h] = h

\* a send_request call has not returned yet
Outstanding == \E t \in Threads : NSends(stack[t]) > 0

\* C4: nested requests never deadlock.  While a send_request of the chain
\* has not returned, some thread of one of the two peers can take a step.
NestedNoDeadlock == Outstanding => ENABLED NextPair

\* the handlers of a thread's outer (top-level) and nested requests
OuterOf(p, t) ==
  {h \in HandlerIds : handlers[p][h].thread = t /\ ~handlers[p][h].syncrequest}
NestedOf(p, t) ==
  {h \in HandlerIds : handlers[p][h].thread = t /\ handlers[p][h].syncrequest}

\* C3: nested ordering.  Once the response to a thread's nested request has
\* been returned to the nested handler, the response to the thread's outer
\* request is eventually returned to the outer handler.
NestedThenOuter ==
  \A t \in {"a_c1"} : \A h1, h2 \in 1 .. MaxHandlers :
    (h2 \in NestedOf("a", t) /\ h1 \in OuterOf("a", t) /\ got["a"][h2] = h2)
      ~> (got["a"][h1] = h1)

\* C5: closure liveness for waiters.  Once close() has set open = False, a
\* thread parked in __waitForResponse (at or before handler.wait()) leaves
\* send_request.
ClosedWaitersLeave ==
  \A t \in {"a_c1", "a_c2"} :
    (~open["a"] /\ Pc(t) \in {"wr_park", "wr_wait"}) ~> (NSends(stack[t]) = 0)

\* C6: shutdown post-state.  When a call of close() has returned, open is
\* False, the registry is empty and both streams have been closed, each
\* once.
ShutdownPostState ==
  \A t \in ThreadsA : (Top(t).fn = "closer" /\ Pc(t) = "k_done") =>
    /\ ~open["a"]
    /\ response_handlers["a"] = <<>>
    /\ ostream_closed["a"] = 1 /\ istream_closed["a"] = 1

\* C7: send_request on a closed connection.  A send_request that finds
\* open = False under the request lock raises the connection-closed error
\* and changes nothing: no handler, no waiting count, no frame, no lock kept.
ClosedRefused ==
  [][\A t \in ThreadsA :
       (Pc(t) = "sr_lock" /\ ~open["a"] /\ stack'[t] # stack[t]) =>
         /\ stack'[t] = <<[stack[t][1] EXCEPT !.pc = "c_done", !.out = "closed"]>>
         /\ UNCHANGED <<response_handlers, handlers, ncalls, waiting, processing,
                        responses, requests, chan, request_lock, open>>]_vars

\* a client's send_request was refused on a connection that never had a
\* handler, after close() had closed the streams
ClosedRefusedWitness ==
  /\ ~open["a"] /\ ostream_closed["a"] = 1
  /\ \E t \in {"a_c1", "a_c2"} : Pc(t) = "c_done" /\ Top(t).out = "closed"
  /\ ncalls["a"] = 0

\* the threads whose handlers are in the registry of p
Registered(p) ==
  {handlers[p][response_handlers[p][i]].thread : i \in 1 .. Len(response_handlers[p])}

\* C8: transport failure disposition.  A send_request that has failed
\* failed with the connection-closed error, and no thread that has left
\* send_request still has a handler in the registry.
FailedCallsLeaveRegistry ==
  \A t \in {"a_c1", "a_c2"} : Pc(t) = "c_done" =>
    (Top(t).out \in {"ok", "closed"} /\ t \notin Registered("a"))

\* C9: remote failure round trip.  When the top-level send_request of peer
\* "a" has raised the remote error and the handling thread of peer "b" is
\* back in its read loop, "b" has released the processing slot exactly once,
\* has restored request_count, has written nothing but the one exception
\* frame, both connections are open, and "a" has removed the handler and
\* was given the frame answering its own request.
RemoteFailureRoundTrip ==
  (Pc("a_c1") = "c_done" /\ Top("a_c1").out = "remote" /\ Len(stack["b_srv"]) = 1) =>
    /\ processing["b"] = 0 /\ waiting["b"] = 0
    /\ request_count["b_srv"] = 0 /\ request_count["a_c1"] = 0
    /\ chan["a"] = <<>>
    /\ open["a"] /\ open["b"]
    /\ response_handlers["a"] = <<>> /\ response_handlers["b"] = <<>>
    /\ got["a"][1] = 1

\* the handler of the request failed, the exception frame came back and the
\* caller raised it; the handling thread waits for the next request
RemoteFailureWitness ==
  /\ Pc("a_c1") = "c_done" /\ Top("a_c1").out = "remote"
  /\ Pc("b_srv") = "wq_recv"
  /\ ncalls["b"] = 0


\* C10 -- pending-proxy race: when the peer emits a frame that introduces its
\* object K and a frame that refers to K by identity only, in either order
\* of arrival and whichever threads read and handle them, exactly one proxy
\* is constructed for K, the decoder of the identity-only frame returns that
\* proxy, and a decoder that waits on pending_proxies[K] is eventually woken.
OneProxy ==
  /\ constructed["a"] <= 1
  /\ resolved["a"] \subseteq {1}
  /\ proxies["a"] \in {0, 1}

PendingProxyRace ==
  /\ []OneProxy
  /\ \A t \in {"a_srv", "a_c1"} : (Pc(t) = "u_wait") ~> (Pc(t) = "u_ret")


\* C11 -- proxy idempotence: whichever threads marshal the local object O
\* (request senders and response senders), the payload that introduces O is
\* built exactly once, every later payload carries its identity alone, and
\* proxied_objects only grows.
ProxyIdempotence ==
  /\ [](introduced["a"] <= 1)
  /\ [][proxied_objects["a"] => proxied_objects'["a"]]_vars


\* the frames of thread t that are __handle of an inbound request or
\* syncrequest, past the increment of request_count
HandlingAt(t) ==
  {i \in 1 .. Len(stack[t]) :
     /\ stack[t][i].fn = "handle"
     /\ stack[t][i].m.type \in request_types
     /\ stack[t][i].pc # "h_start"}

\* C12 -- request kind selection: request_count of a thread is its depth of
\* inbound-request handling (also after handler errors and fatal exits, and
\* never raised by a response or exception message); a send_request made
\* inside __handle of a request, and only such a one, has its handler
\* flagged syncrequest and its frame written as a syncrequest.
RequestKindSelection ==
  /\ \A t \in Threads : request_count[t] = Cardinality(HandlingAt(t))
  /\ \A t \in Threads : \A i \in 1 .. Len(stack[t]) :
        (stack[t][i].fn = "send" /\ stack[t][i].h # 0) =>
          (handlers[PeerOf(t)][stack[t][i].h].syncrequest
             <=> (\E j \in HandlingAt(t) : j < i))
  /\ \A p \in Peers : \A k \in 1 .. Len(chan[Other(p)]) :
        LET m == chan[Other(p)][k]
        IN m.type \in request_types =>
             (m.type = "syncrequest" <=> handlers[p][m.tag].syncrequest)

\* a thread two inbound requests deep, and a thread that has left a failed
\* or exited handler with a syncrequest handler behind it
RequestKindWitness ==
  /\ request_count["b_srv"] = 2
  /\ \E h \in HandlerIds : handlers["b"][h].syncrequest
  /\ \E h \in HandlerIds : handlers["a"][h].syncrequest


\* C13 -- registry insertion rule: a step that registers a handler h of
\* thread t puts it at the tail when h is top-level, and immediately before
\* the first handler of t (at the tail when t has none) when h is nested;
\* the handlers already registered keep their order.
RegistryInsertion ==
  [][\A p \in Peers :
       LET rh == response_handlers[p]
           rn == response_handlers'[p]
       IN Len(rn) = Len(rh) + 1 =>
            \E i \in 1 .. Len(rn) :
              LET h == rn[i]
                  t == handlers'[p][h].thread
                  own == {j \in 1 .. Len(rh) : handlers[p][rh[j]].thread = t}
              IN /\ \A j \in 1 .. Len(rh) : rh[j] # h
                 /\ \A j \in 1 .. i - 1 : rn[j] = rh[j]
                 /\ \A j \in i .. Len(rh) : rn[j + 1] = rh[j]
                 /\ IF handlers'[p][h].syncrequest /\ own # {}
                      THEN i \in own /\ \A j \in own : i <= j
                      ELSE i = Len(rh) + 1]_vars

\* a nested handler stands right before its thread's outer handler with
\* another thread's handler behind them, and a nested handler of a thread
\* that had none stands at the tail behind another thread's handler
RegistryInsertionWitness ==
  LET rh == response_handlers["a"]
      H(i) == handlers["a"][rh[i]]
  IN \/ /\ Len(rh) >= 3
        /\ H(1).syncrequest /\ ~H(2).syncrequest /\ H(1).thread = H(2).thread
        /\ H(3).thread # H(1).thread
     \/ /\ Len(rh) >= 2
        /\ H(Len(rh)).syncrequest /\ H(Len(rh)).thread = "a_srv"
        /\ H(1).thread # "a_srv"


\* C14 -- request-reader admission: a thread in __waitForRequest sets
\* receiving and starts to read only when the connection is open, no request
\* is queued, nobody is receiving, responses = 0 and processing is 0 or
\* equal to waiting.
RequestReaderAdmission ==
  [][\A t \in Threads :
       LET p == PeerOf(t)
       IN (Pc(t) \in {"wq_enter", "wq_wait"} /\ stack'[t] # stack[t]
             /\ stack'[t][Len(stack'[t])].pc = "wq_recv0") =>
            /\ open[p] /\ requests[p] = <<>> /\ ~receiving[p] /\ receiving'[p]
            /\ responses[p] = 0
            /\ (processing[p] = 0 \/ processing[p] = waiting[p])]_vars


\* C15 -- response-reader admission: a thread in __waitForResponse(h) sets
\* receiving and starts to read only when the connection is open, nobody is
\* receiving, h heads the registry and processing is 0 or equal to waiting;
\* and h still heads the registry when the frame it has read is classified.
ResponseReaderAdmission ==
  [][\A t \in Threads :
       LET p == PeerOf(t)
           f == Top(t)
           isHead == response_handlers[p] # <<>> /\ response_handlers[p][1] = f.h
       IN /\ (f.pc \in {"wr_enter", "wr_reacq"} /\ stack'[t] # stack[t]
                /\ stack'[t][Len(stack'[t])].pc = "wr_recv0") =>
               /\ open[p] /\ ~receiving[p] /\ receiving'[p] /\ isHead
               /\ (processing[p] = 0 \/ processing[p] = waiting[p])
          /\ (f.pc = "wr_recv" /\ stack'[t] # stack[t] /\ chan'[p] # chan[p]) => isHead]_vars


\* the scheduling state of connection p is written by the step
SchedulingWritten(p) ==
  \/ open'[p] # open[p] \/ receiving'[p] # receiving[p]
  \/ processing'[p] # processing[p] \/ waiting'[p] # waiting[p]
  \/ responses'[p] # responses[p] \/ requests'[p] # requests[p]
  \/ response_handlers'[p] # response_handlers[p]

\* C16 -- the scheduling state is mutex-guarded: a thread writes open,
\* receiving, processing, waiting, responses, requests or response_handlers
\* only while it holds the scheduling mutex, so never while another thread
\* holds it.
MutexGuarded ==
  [][\A t \in Threads :
       (stack'[t] # stack[t] /\ SchedulingWritten(PeerOf(t))) =>
         cond_lock[PeerOf(t)] \in {NoThread, t}]_vars


\* no thread of connection p has an inbound request in its hands: every
\* thread is outside __handle and outside the tails of __waitForRequest and
\* __waitForResponse, and no request is queued or delivered to a handler
NothingInHand(p) ==
  /\ requests[p] = <<>>
  /\ \A h \in HandlerIds : handlers[p][h].message.type \notin request_types
  /\ \A t \in Threads : PeerOf(t) = p =>
        /\ \A i \in 1 .. Len(stack[t]) : stack[t][i].fn # "handle"
        /\ Top(t).m.type \notin request_types

\* C17 -- processing counter: processing is never negative and counts the
\* inbound requests and syncrequests handed to a thread and not yet
\* answered, on every path of __handle; so it is 0 whenever no thread has
\* such a message in its hands.
ProcessingCounter ==
  \A p \in Peers :
    /\ processing[p] >= 0
    /\ NothingInHand(p) => processing[p] = 0


\* the registered handlers of connection p that are flagged syncrequest
NestedPending(p) ==
  {i \in 1 .. Len(response_handlers[p]) : handlers[p][response_handlers[p][i]].syncrequest}

\* C18 -- waiting counter: whenever no thread is inside a critical section
\* of the scheduling mutex, waiting is not negative and equals the number
\* of registered handlers flagged syncrequest; it falls once per nested
\* request, when its response or exception is consumed, and not when
\* __waitForResponse returns an intervening syncrequest.
WaitingCounter ==
  \A p \in Peers :
    cond_lock[p] = NoThread =>
      /\ waiting[p] >= 0
      /\ waiting[p] = Cardinality(NestedPending(p))


\* the responses and exceptions a __waitForRequest reader has counted
\* (line 330) and their owners have not consumed (lines 411-413): those the
\* reader is about to store, those stored in a handler, and those an owner
\* has taken from its handler and not yet counted off
Delivered(p) ==
  Cardinality({h \in HandlerIds : handlers[p][h].message.type \in response_types})
  + Cardinality({t \in Threads :
       /\ PeerOf(t) = p
       /\ Top(t).pc \in {"wq_set0", "wr_reacq", "wr_dec"}
       /\ Top(t).m.type \in response_types})

\* C19 -- responses counter: responses is not negative and equals the
\* number of responses and exceptions that a __waitForRequest reader has
\* stored into a handler and the owner has not consumed; so once every
\* delivered response is consumed it is 0 again.
ResponsesCounter ==
  \A p \in Peers :
    /\ responses[p] >= 0
    /\ responses[p] = Delivered(p)


\* C20 -- deferred request queue: a plain request read by a thread inside
\* __waitForResponse is appended to requests, and while the connection
\* stays open and a serve_forever thread exists no queued request stays
\* undispatched forever: __waitForRequest takes it from the queue.
QueuedRequestsDispatched ==
  \A p \in Peers :
    (open[p] /\ requests[p] # <<>>) ~> (requests[p] = <<>> \/ ~open[p])


\* threads between the two statements of __register_proxy (lines 541, 542)
Registering(p) == {t \in Threads : PeerOf(t) = p /\ Pc(t) = "u_reg"}

\* C21 -- proxy table bijection: after any sequence of unmarshal operations,
\* repeated or concurrent introductions of the same remote identity
\* included, a proxy has an entry in proxy_ids exactly when it is the proxy
\* that proxies holds for its remote identity.
ProxyTableBijection ==
  \A p \in Peers :
    Registering(p) = {} =>
      proxy_ids[p] = (IF proxies[p] = 0 THEN {} ELSE {proxies[p]})


\* the thread t has the message m in one of its frames after the step
TakenBy(t, m) == \E i \in 1 .. Len(stack'[t]) : stack'[t][i].m = m

\* C22 -- no lost delivery in a handler cell: a message stored into a
\* ResponseHandler by set(m) leaves the cell only into the hands of a thread
\* of the connection (the owner's wait() or get() returns it); no
\* interleaving of a message-less set() with set(m) and the owner's wait()
\* and clear() discards it.
NoLostDelivery ==
  [][\A p \in Peers : \A h \in HandlerIds :
       LET m == handlers[p][h].message
       IN (m # NoMsg /\ handlers'[p][h].message # m) =>
            \E t \in Threads : PeerOf(t) = p /\ TakenBy(t, m)]_vars


\* the thread that takes the step (the only one whose frames change)
Acting(t) == stack'[t] # stack[t]

\* C23 -- a waiter removes only its own handler: every time
\* __waitForResponse(h) deletes response_handlers[0] (after it read a
\* response itself, after it consumed a delivered one, or on the closed
\* path) the deleted entry is h, so no thread removes the handler of
\* another outstanding request.
OwnHandlerRemoved ==
  [][\A p \in Peers :
       (response_handlers[p] # <<>> /\ response_handlers'[p] = Tail(response_handlers[p])) =>
         \E t \in Threads :
           PeerOf(t) = p /\ Acting(t) /\ Top(t).h = Head(response_handlers[p])]_vars


\* lines 150-196: the thread t is inside a call of close()
InClose(t) == \E i \in 1 .. Len(stack[t]) : stack[t][i].fn = "close"

\* line 562 of __recv: the thread t is in the read of the input stream
InRead(t) == Pc(t) \in {"wq_recv", "wr_recv"}

\* C24 -- close() terminates: provided no thread stays blocked forever in a
\* stream read, every call of close() eventually returns, whatever the state
\* at the call (a request just read by the serve_forever reader, a handler
\* running, a delivered message not yet consumed): the wait for an empty
\* registry and processing = 0 is eventually satisfied and notified.
CloseTerminates ==
  (\A t \in ThreadsA : []<>(~InRead(t)))
    => (\A t \in ThreadsA : InClose(t) ~> ~InClose(t))

====
